---------------------------- MODULE Spec2Model ----------------------------
(***************************************************************************)
(* Reconciliation of the eight integration adapters of datadog-sync-cli    *)
(* (aws, azure, fastly, gcp, pagerduty, service_definition, slack          *)
(* channels, webhooks): the Destination Cache built by pre_apply_hook, the *)
(* upsert in create_resource, update_resource, delete_resource, and the    *)
(* State Store they read and write.                                        *)
(*                                                                         *)
(* A Python dict is a function from field names to values; a Python str is *)
(* a sequence of characters, so that f"{a}:{b}" is a concatenation and     *)
(* str.split is computed on the characters.                                *)
(***************************************************************************)
EXTENDS Integers, Sequences, FiniteSets, TLC

VARIABLES adapter, items, stateSrc, stateDst, dest, cache, phase, run,
          calls, reqs, finished, warnings, history,
          instances, pager, probe

vars == <<adapter, items, stateSrc, stateDst, dest, cache, phase, run,
          calls, reqs, finished, warnings, history,
          instances, pager, probe>>

\* the variables of one adapter instance under the engine or a caller
runVars == <<adapter, items, stateSrc, stateDst, dest, cache, phase, run,
             calls, reqs, finished, warnings, history>>

(***************************************************************************)
(* Bounds of the model.                                                    *)
(***************************************************************************)
\* source instances reconciled in one run
MaxItems == 2
\* apply runs in a row
MaxRuns == 2
\* objects at the destination before the first run
MaxDest == 1

(***************************************************************************)
(* Python values.                                                          *)
(***************************************************************************)
\* the empty dict {}
EmptyDict == [k \in {} |-> k]
\* the empty str ""
EmptyStr == <<>>
\* Python's None
None == <<"<None>">>
\* the outcome of d[k] on a missing key
KeyError == <<"<KeyError>">>
Colon == <<":">>

\* d.get(k, default)
Get(d, k, default) == IF k \in DOMAIN d THEN d[k] ELSE default
\* d[k]
Index(d, k) == IF k \in DOMAIN d THEN d[k] ELSE KeyError
\* d[k] = v on a copy
Put(d, k, v) == [x \in (DOMAIN d) \cup {k} |-> IF x = k THEN v ELSE d[x]]
\* d.pop(k, None) on a copy
Pop(d, k) == [x \in (DOMAIN d) \ {k} |-> d[x]]
\* d.update(e) on a copy
Update(d, e) == [x \in (DOMAIN d) \cup (DOMAIN e) |-> IF x \in DOMAIN e THEN e[x] ELSE d[x]]
\* bool(v) of a str or None
Truthy(v) == v # EmptyStr /\ v # None

Adapters == {"aws", "azure", "fastly", "gcp", "pagerduty",
             "service_definition", "slack", "webhooks"}


(***************************************************************************)
(* Identity keys.                                                          *)
(***************************************************************************)
\* A faulty identity in which role_name precedes access_key_id.
AWS_get_resource_id_RoleFirst(resource) ==
    LET account_id == Get(resource, "account_id", EmptyStr)
        role_name == Get(resource, "role_name", EmptyStr)
        access_key_id == Get(resource, "access_key_id", EmptyStr)
    IN  IF Truthy(role_name)
        THEN account_id \o Colon \o role_name
        ELSE account_id \o Colon \o access_key_id

\* AWSIntegration._get_resource_id
AWS_get_resource_id(resource) ==
    LET account_id == Get(resource, "account_id", EmptyStr)
        role_name == Get(resource, "role_name", EmptyStr)
        access_key_id == Get(resource, "access_key_id", EmptyStr)
    IN  IF Truthy(access_key_id)
        THEN account_id \o Colon \o access_key_id
        ELSE account_id \o Colon \o role_name

\* AzureIntegration._get_resource_id
Azure_get_resource_id(resource) ==
    Get(resource, "tenant_name", EmptyStr) \o Colon \o Get(resource, "client_id", EmptyStr)

\* SlackIntegrationChannels._get_composite_id
Slack_get_composite_id(resource) ==
    LET account_name == Get(resource, "_account_name", EmptyStr)
        channel_name == Get(resource, "channel_name", Get(resource, "name", EmptyStr))
    IN  account_name \o Colon \o channel_name

\* str.split(":", 1): the index of the first colon, 0 when there is none
FirstColon(s) ==
    IF \E i \in 1..Len(s) : s[i] = ":"
    THEN CHOOSE i \in 1..Len(s) : s[i] = ":" /\ \A j \in 1..(i - 1) : s[j] # ":"
    ELSE 0

\* A faulty parse that splits on the last colon, as rsplit(":", 1) would.
Slack_parse_composite_id_LastColon(composite_id) ==
    LET colons == {i \in 1..Len(composite_id) : composite_id[i] = ":"}
    IN  IF colons # {}
        THEN LET i == CHOOSE x \in colons : \A y \in colons : y <= x
             IN  <<SubSeq(composite_id, 1, i - 1),
                   SubSeq(composite_id, i + 1, Len(composite_id))>>
        ELSE <<EmptyStr, composite_id>>

\* SlackIntegrationChannels._parse_composite_id
Slack_parse_composite_id(composite_id) ==
    LET i == FirstColon(composite_id)
    IN  IF i > 0
        THEN <<SubSeq(composite_id, 1, i - 1), SubSeq(composite_id, i + 1, Len(composite_id))>>
        ELSE <<EmptyStr, composite_id>>

\* A faulty payload that keeps the internal field.
Slack_prepare_payload_Keep(resource) == resource

\* SlackIntegrationChannels._prepare_payload
Slack_prepare_payload(resource) == Pop(resource, "_account_name")

\* ServiceDefinition._get_service_name
SD_get_service_name(resource) ==
    LET schema == IF "attributes" \in DOMAIN resource
                  THEN Get(resource["attributes"], "schema", EmptyDict)
                  ELSE EmptyDict
    IN  IF "attributes" \in DOMAIN resource /\ "dd-service" \in DOMAIN schema
          THEN schema["dd-service"]
        ELSE IF "attributes" \in DOMAIN resource /\ "name" \in DOMAIN schema
          THEN schema["name"]
        ELSE IF "dd-service" \in DOMAIN resource THEN resource["dd-service"]
        ELSE IF "name" \in DOMAIN resource THEN resource["name"]
        ELSE Get(resource, "id", EmptyStr)

\* ServiceDefinition._extract_schema_data
SD_extract_schema_data(resource) ==
    IF "attributes" \in DOMAIN resource /\ "schema" \in DOMAIN resource["attributes"]
    THEN resource["attributes"]["schema"]
    ELSE resource

\* resource["attributes"]["name"] of the Fastly adapter
Fastly_account_name(resource) ==
    IF "attributes" \in DOMAIN resource THEN Index(resource["attributes"], "name") ELSE KeyError

\* resource.get("attributes", {}).get("client_email") of the GCP adapter
GCP_client_email(resource) ==
    Get(Get(resource, "attributes", EmptyDict), "client_email", None)

\* The identity import_resource(resource=r) returns: the _id under which the
\* instance is reconciled.
ImportId(a, r) ==
    CASE a = "aws" -> AWS_get_resource_id(r)
      [] a = "azure" -> Azure_get_resource_id(r)
      [] a = "fastly" -> Index(r, "id")
      [] a = "gcp" -> Index(r, "id")
      [] a = "pagerduty" -> Index(r, "service_name")
      [] a = "service_definition" -> SD_get_service_name(r)
      [] a = "slack" -> Slack_get_composite_id(r)
      [] a = "webhooks" -> Index(r, "name")

(***************************************************************************)
(* Requests to the destination client.  A path is the sequence of segments *)
(* after resource_config.base_path; via names the adapter method that      *)
(* issued the request.                                                     *)
(***************************************************************************)
NoReq == [none |-> TRUE]
\* a request without a body
NoBody == [nobody |-> TRUE]
Request(via, method, path, params, body) ==
    [via |-> via, method |-> method, path |-> path, params |-> params, body |-> body]
\* a JSON list inside a response body
PyList(seq) == [list |-> seq]
IsList(v) == "list" \in DOMAIN v
ChannelsSeg == <<"channels">>

\* state.destination[resource_type][_id][field]
StateField(st, _id, field) ==
    IF _id \in DOMAIN st THEN Index(st[_id], field) ELSE KeyError

\* The key create_resource looks up in the Destination Cache.
CreateLookupKey(a, _id, resource) ==
    CASE a = "aws" -> AWS_get_resource_id(resource)
      [] a = "azure" -> Azure_get_resource_id(resource)
      [] a = "fastly" -> Fastly_account_name(resource)
      [] a = "gcp" -> GCP_client_email(resource)
      [] a = "pagerduty" -> Index(resource, "service_name")
      [] a = "service_definition" -> _id
      [] a = "slack" -> _id
      [] a = "webhooks" -> Index(resource, "name")

\* A faulty create_resource that never consults the cache.
TakesUpsertPath_Never(a, _id, resource, c) == FALSE

\* The condition under which create_resource delegates to update_resource.
TakesUpsertPath(a, _id, resource, c) ==
    LET k == CreateLookupKey(a, _id, resource)
    IN  IF a = "gcp" THEN Truthy(k) /\ k \in DOMAIN c ELSE k \in DOMAIN c

\* The request of create_resource on the path that creates.
CreateRequest(a, _id, resource) ==
    CASE a \in {"aws", "azure", "pagerduty", "webhooks"} ->
           Request("create", "POST", <<>>, EmptyDict, resource)
      [] a \in {"fastly", "gcp"} ->
           Request("create", "POST", <<>>, EmptyDict, [data |-> resource])
      [] a = "service_definition" ->
           Request("create", "POST", <<>>, EmptyDict, SD_extract_schema_data(resource))
      [] a = "slack" ->
           Request("create", "POST", <<Get(resource, "_account_name", EmptyStr), ChannelsSeg>>,
                   EmptyDict, Slack_prepare_payload(resource))

\* Faulty parameters that are read from the State Store entry alone.
AWS_update_params_EntryOnly(dest_resource, resource) ==
    LET base == [account_id |-> Get(dest_resource, "account_id", None)]
    IN  IF Truthy(Get(dest_resource, "role_name", None))
          THEN Put(base, "role_name", Get(dest_resource, "role_name", None))
        ELSE IF Truthy(Get(dest_resource, "access_key_id", None))
          THEN Put(base, "access_key_id", Get(dest_resource, "access_key_id", None))
        ELSE base

\* AWSIntegration.update_resource: the query parameters
AWS_update_params(dest_resource, resource) ==
    LET base == [account_id |-> Get(dest_resource, "account_id", Get(resource, "account_id", None))]
    IN  IF Truthy(Get(dest_resource, "role_name", None)) \/ Truthy(Get(resource, "role_name", None))
          THEN Put(base, "role_name",
                   Get(dest_resource, "role_name", Get(resource, "role_name", None)))
        ELSE IF Truthy(Get(dest_resource, "access_key_id", None))
                  \/ Truthy(Get(resource, "access_key_id", None))
          THEN Put(base, "access_key_id",
                   Get(dest_resource, "access_key_id", Get(resource, "access_key_id", None)))
        ELSE base

\* AWSIntegration.delete_resource: the body
AWS_delete_body(dest_resource) ==
    LET base == [account_id |-> Get(dest_resource, "account_id", None)]
    IN  IF Truthy(Get(dest_resource, "role_name", None))
          THEN Put(base, "role_name", Get(dest_resource, "role_name", None))
        ELSE IF Truthy(Get(dest_resource, "access_key_id", None))
          THEN Put(base, "access_key_id", Get(dest_resource, "access_key_id", None))
        ELSE base

\* A faulty body that defaults the missing fields to "" instead of None.
Azure_delete_body_EmptyDefaults(dest_resource) ==
    [tenant_name |-> Get(dest_resource, "tenant_name", EmptyStr),
     client_id |-> Get(dest_resource, "client_id", EmptyStr)]

\* AzureIntegration.delete_resource: the body
Azure_delete_body(dest_resource) ==
    [tenant_name |-> Get(dest_resource, "tenant_name", None),
     client_id |-> Get(dest_resource, "client_id", None)]

\* The State Store field that names the destination object in the path of
\* update_resource and delete_resource.
SurrogateField(a) ==
    CASE a \in {"fastly", "gcp"} -> "id"
      [] a = "pagerduty" -> "service_name"
      [] a = "webhooks" -> "name"

\* The path of the Slack adapter's update and delete requests.
Slack_channel_path(_id) ==
    LET parsed == Slack_parse_composite_id(_id)
    IN  <<parsed[1], ChannelsSeg, parsed[2]>>

\* A faulty update_resource that reads the State Store leniently everywhere.
UpdateRaises_Never(a, _id, resource, st) == FALSE

\* Whether update_resource raises KeyError before it issues a request:
\* state.destination[resource_type][_id][field] of an absent entry or field.
UpdateRaises(a, _id, resource, st) ==
    a \in {"fastly", "gcp", "pagerduty", "webhooks"}
        /\ StateField(st, _id, SurrogateField(a)) = KeyError

\* A faulty update_resource whose Fastly and GCP PATCH goes to the id the
\* payload came with.
UpdateRequestFor_SourceId(a, _id, resource, entry) ==
    CASE a = "aws" ->
           Request("update", "PUT", <<>>, AWS_update_params(entry, resource), resource)
      [] a = "azure" -> Request("update", "PUT", <<>>, EmptyDict, resource)
      [] a \in {"fastly", "gcp"} ->
           Request("update", "PATCH", <<Get(resource, "id", Index(entry, "id"))>>,
                   EmptyDict, [data |-> resource])
      [] a \in {"pagerduty", "webhooks"} ->
           Request("update", "PUT", <<Index(entry, SurrogateField(a))>>, EmptyDict, resource)
      [] a = "service_definition" ->
           Request("update", "POST", <<>>, EmptyDict, SD_extract_schema_data(resource))
      [] a = "slack" ->
           Request("update", "PATCH", Slack_channel_path(_id), EmptyDict,
                   Slack_prepare_payload(resource))

\* The request of update_resource, given the State Store entry of _id it
\* reads (entry is {} where the code reads with .get(_id, {}) and finds none).
UpdateRequestFor(a, _id, resource, entry) ==
    CASE a = "aws" ->
           Request("update", "PUT", <<>>, AWS_update_params(entry, resource), resource)
      [] a = "azure" -> Request("update", "PUT", <<>>, EmptyDict, resource)
      [] a \in {"fastly", "gcp"} ->
           Request("update", "PATCH", <<Index(entry, "id")>>, EmptyDict, [data |-> resource])
      [] a \in {"pagerduty", "webhooks"} ->
           Request("update", "PUT", <<Index(entry, SurrogateField(a))>>, EmptyDict, resource)
      [] a = "service_definition" ->
           Request("update", "POST", <<>>, EmptyDict, SD_extract_schema_data(resource))
      [] a = "slack" ->
           Request("update", "PATCH", Slack_channel_path(_id), EmptyDict,
                   Slack_prepare_payload(resource))

\* A faulty update_resource that addresses the object the payload names.
UpdateRequest_FromPayload(a, _id, resource, st) ==
    UpdateRequestFor(a, _id, resource, resource)

\* The request of update_resource.
UpdateRequest(a, _id, resource, st) ==
    UpdateRequestFor(a, _id, resource, Get(st, _id, EmptyDict))

\* Whether delete_resource raises KeyError before it issues a request.
DeleteRaises(a, _id, st) ==
    a \in {"fastly", "gcp", "pagerduty", "webhooks"}
        /\ StateField(st, _id, SurrogateField(a)) = KeyError

\* A faulty delete_resource that addresses the object the identity names.
DeleteRequest_FromId(a, _id, st) ==
    CASE a = "aws" ->
           Request("delete", "DELETE", <<>>, EmptyDict, AWS_delete_body(Get(st, _id, EmptyDict)))
      [] a = "azure" ->
           Request("delete", "DELETE", <<>>, EmptyDict, Azure_delete_body(Get(st, _id, EmptyDict)))
      [] a \in {"fastly", "gcp", "pagerduty", "webhooks", "service_definition"} ->
           Request("delete", "DELETE", <<_id>>, EmptyDict, NoBody)
      [] a = "slack" -> Request("delete", "DELETE", Slack_channel_path(_id), EmptyDict, NoBody)

\* The request of delete_resource.
DeleteRequest(a, _id, st) ==
    CASE a = "aws" ->
           Request("delete", "DELETE", <<>>, EmptyDict, AWS_delete_body(Get(st, _id, EmptyDict)))
      [] a = "azure" ->
           Request("delete", "DELETE", <<>>, EmptyDict, Azure_delete_body(Get(st, _id, EmptyDict)))
      [] a \in {"fastly", "gcp", "pagerduty", "webhooks"} ->
           Request("delete", "DELETE", <<StateField(st, _id, SurrogateField(a))>>,
                   EmptyDict, NoBody)
      [] a = "service_definition" -> Request("delete", "DELETE", <<_id>>, EmptyDict, NoBody)
      [] a = "slack" -> Request("delete", "DELETE", Slack_channel_path(_id), EmptyDict, NoBody)

\* A faulty create_resource that returns the response as it came.
CreateReturn_Response(a, _id, resource, resp) ==
    CASE a \in {"aws", "azure", "pagerduty", "webhooks"} -> resp
      [] a \in {"fastly", "gcp"} -> Index(resp, "data")
      [] a = "service_definition" ->
           IF IsList(Get(resp, "data", EmptyDict)) THEN resp["data"]["list"][1]
           ELSE Index(resp, "data")
      [] a = "slack" -> resp

\* What create_resource returns for a response to its create request.
CreateReturn(a, _id, resource, resp) ==
    CASE a = "aws" ->
           IF "external_id" \in DOMAIN resp
           THEN Put(resource, "external_id", resp["external_id"])
           ELSE resource
      [] a = "azure" -> resource
      [] a \in {"fastly", "gcp"} -> Index(resp, "data")
      [] a \in {"pagerduty", "webhooks"} -> resp
      [] a = "service_definition" ->
           IF IsList(Get(resp, "data", EmptyDict)) THEN resp["data"]["list"][1]
           ELSE Index(resp, "data")
      [] a = "slack" -> Put(resp, "_account_name", Get(resource, "_account_name", EmptyStr))

\* What update_resource returns for a response to its request.
UpdateReturn(a, _id, resource, resp) ==
    CASE a = "aws" -> Update(resource, resp)
      [] a = "azure" -> resource
      [] a \in {"fastly", "gcp"} -> Index(resp, "data")
      [] a \in {"pagerduty", "webhooks"} -> resp
      [] a = "service_definition" ->
           IF IsList(Get(resp, "data", EmptyDict)) THEN resp["data"]["list"][1]
           ELSE Index(resp, "data")
      [] a = "slack" -> Put(resp, "_account_name", Slack_parse_composite_id(_id)[1])

(***************************************************************************)
(* The destination organization behind destination_client: the objects it  *)
(* holds (dest, in listing order), which objects a request addresses, what *)
(* it stores and what it answers.  A Slack channel is held with the        *)
(* account it belongs to, [account |-> name, channel |-> channel].         *)
(***************************************************************************)
\* surrogate ids the destination assigns, in order of assignment
DestIdPool == <<"d1", "d2", "d3", "d4", "d5", "d6", "d7", "d8", "d9", "d10", "d11", "d12">>
\* the Slack accounts configured at the destination: one is listed with
\* "name", one with "account_name", one has no name at all
SlackAccounts == <<[name |-> <<"w">>], [account_name |-> <<"v">>], [team |-> <<"t">>]>>

SeqRange(q) == {q[i] : i \in DOMAIN q}

FreshId(d) ==
    LET used == {Get(d[i], "id", EmptyStr) : i \in DOMAIN d}
        n == CHOOSE i \in DOMAIN DestIdPool :
                 /\ <<DestIdPool[i]>> \notin used
                 /\ \A j \in 1..(i - 1) : <<DestIdPool[j]>> \in used
    IN  <<DestIdPool[n]>>

\* AWS: the integration the query parameters or the delete body select; an
\* integration that has an access key is keyed by it, any other by its role
AWS_selected(sel, obj) ==
    /\ Get(obj, "account_id", EmptyStr) = sel["account_id"]
    /\ IF "role_name" \in DOMAIN sel
         THEN /\ Get(obj, "role_name", EmptyStr) = sel["role_name"]
              /\ ~Truthy(Get(obj, "access_key_id", EmptyStr))
       ELSE IF "access_key_id" \in DOMAIN sel
         THEN Get(obj, "access_key_id", EmptyStr) = sel["access_key_id"]
       ELSE FALSE

Slack_channel_name(channel) == Get(channel, "channel_name", Get(channel, "name", EmptyStr))

\* Whether obj is the object the update or delete request req addresses.
Addressed(a, req, obj) ==
    CASE a = "aws" ->
           AWS_selected(IF req.via = "delete" THEN req.body ELSE req.params, obj)
      [] a = "azure" ->
           /\ Get(obj, "tenant_name", EmptyStr) = Get(req.body, "tenant_name", None)
           /\ Get(obj, "client_id", EmptyStr) = Get(req.body, "client_id", None)
      [] a \in {"fastly", "gcp"} -> Index(obj, "id") = req.path[1]
      [] a = "pagerduty" -> Index(obj, "service_name") = req.path[1]
      [] a = "webhooks" -> Index(obj, "name") = req.path[1]
      [] a = "service_definition" ->
           IF req.via = "delete" THEN SD_get_service_name(obj) = req.path[1]
           ELSE SD_get_service_name(obj) = SD_get_service_name(req.body)
      [] a = "slack" ->
           /\ obj.account = req.path[1]
           /\ Slack_channel_name(obj.channel) = req.path[3]

\* The object a create request adds.
Stored(a, req, d) ==
    CASE a \in {"aws", "azure", "pagerduty", "webhooks"} -> req.body
      [] a \in {"fastly", "gcp"} ->
           [id |-> FreshId(d), attributes |-> Get(req.body["data"], "attributes", EmptyDict)]
      [] a = "service_definition" -> [attributes |-> [schema |-> req.body]]
      [] a = "slack" -> [account |-> req.path[1], channel |-> req.body]

\* The object an update request leaves in place of obj.
Updated(a, req, obj) ==
    CASE a \in {"aws", "azure"} -> req.body
      [] a \in {"pagerduty", "webhooks"} -> Update(obj, req.body)
      [] a \in {"fastly", "gcp"} ->
           [id |-> obj["id"],
            attributes |-> Update(obj["attributes"],
                                  Get(req.body["data"], "attributes", EmptyDict))]
      [] a = "service_definition" -> [attributes |-> [schema |-> req.body]]
      [] a = "slack" -> [account |-> obj.account, channel |-> Update(obj.channel, req.body)]

\* the service definition API creates or replaces with the same POST
IsUpsertPost(a, req) == a = "service_definition" /\ req.method = "POST"

Targets(a, req, d) == {i \in DOMAIN d : Addressed(a, req, d[i])}

\* Whether the destination can answer req with success.
DestAccepts(a, req, d) ==
    IF IsUpsertPost(a, req) THEN TRUE
    ELSE IF req.via = "create"
      THEN a = "slack" =>
             \E i \in DOMAIN SlackAccounts :
                 Get(SlackAccounts[i], "name", Get(SlackAccounts[i], "account_name", EmptyStr))
                     = req.path[1]
    ELSE Targets(a, req, d) # {}

\* The destination after it has carried out req.
DestApply(a, req, d) ==
    LET add == Append(d, Stored(a, req, d))
        upd == [i \in DOMAIN d |->
                   IF Addressed(a, req, d[i]) THEN Updated(a, req, d[i]) ELSE d[i]]
        Kept(obj) == ~Addressed(a, req, obj)
    IN  IF IsUpsertPost(a, req) THEN (IF Targets(a, req, d) = {} THEN add ELSE upd)
        ELSE IF req.via = "create" THEN add
        ELSE IF req.via = "update" THEN upd
        ELSE SelectSeq(d, Kept)

\* The object req wrote, as the destination holds it afterwards.
Written(a, req, d) ==
    LET after == DestApply(a, req, d)
    IN  IF (req.via = "create" /\ ~IsUpsertPost(a, req)) \/ Targets(a, req, d) = {}
        THEN after[Len(after)]
        ELSE after[CHOOSE i \in Targets(a, req, d) : TRUE]

\* The bodies with which the destination may answer a successful req.
DestResponses(a, req, d) ==
    IF req.via = "delete" THEN {EmptyDict}
    ELSE CASE a = "aws" ->
                IF req.via = "create" THEN {[external_id |-> <<"e">>], EmptyDict}
                ELSE {EmptyDict}
           [] a = "azure" -> {EmptyDict}
           [] a \in {"fastly", "gcp"} -> {[data |-> Written(a, req, d)]}
           [] a \in {"pagerduty", "webhooks"} -> {Written(a, req, d)}
           [] a = "service_definition" ->
                {[data |-> PyList(<<Written(a, req, d)>>)], [data |-> Written(a, req, d)]}
           [] a = "slack" -> {Written(a, req, d).channel}

(***************************************************************************)
(* pre_apply_hook: the Destination Cache.  An outcome o says which fetches *)
(* of the hook fail: o.listFails, the listing request itself (an error     *)
(* other than 404 for webhooks has no listing); o.failing, the Slack       *)
(* accounts whose channel listing fails, or the webhook names whose fetch  *)
(* fails with a status other than 404.                                     *)
(***************************************************************************)
Slack_account_name(account) == Get(account, "name", Get(account, "account_name", EmptyStr))

RECURSIVE Slack_channels_from_Abort(_, _, _)
\* A faulty get_resources that gives up at the first account whose channels
\* cannot be fetched.
Slack_channels_from_Abort(i, d, failing) ==
    IF i > Len(SlackAccounts) THEN <<>>
    ELSE LET account_name == Slack_account_name(SlackAccounts[i])
             Mine(obj) == obj.account = account_name
             mine == SelectSeq(d, Mine)
             channels == [j \in DOMAIN mine |->
                             Put(mine[j].channel, "_account_name", account_name)]
         IN  IF account_name \in failing THEN <<>>
             ELSE (IF ~Truthy(account_name) THEN <<>> ELSE channels)
                      \o Slack_channels_from_Abort(i + 1, d, failing)

RECURSIVE Slack_channels_from(_, _, _)
\* SlackIntegrationChannels.get_resources, from account number i on
Slack_channels_from(i, d, failing) ==
    IF i > Len(SlackAccounts) THEN <<>>
    ELSE LET account_name == Slack_account_name(SlackAccounts[i])
             Mine(obj) == obj.account = account_name
             mine == SelectSeq(d, Mine)
             channels == [j \in DOMAIN mine |->
                             Put(mine[j].channel, "_account_name", account_name)]
         IN  (IF ~Truthy(account_name) \/ account_name \in failing THEN <<>> ELSE channels)
                 \o Slack_channels_from(i + 1, d, failing)

\* get_resources(destination_client) when the listing request succeeds
ListOf(a, d, failing) ==
    IF a = "slack" THEN Slack_channels_from(1, d, failing) ELSE d

\* the key under which the hook files a listed instance
HookKey(a, r) ==
    CASE a = "aws" -> AWS_get_resource_id(r)
      [] a = "azure" -> Azure_get_resource_id(r)
      [] a = "fastly" -> Fastly_account_name(r)
      [] a = "gcp" -> GCP_client_email(r)
      [] a = "pagerduty" -> Index(r, "service_name")
      [] a = "service_definition" -> SD_get_service_name(r)
      [] a = "slack" -> Slack_get_composite_id(r)

\* the hooks of gcp and service_definition skip an instance with no key
HookKeeps(a, r) == a \in {"gcp", "service_definition"} => Truthy(HookKey(a, r))

MaxOf(S) == CHOOSE x \in S : \A y \in S : y <= x

\* A faulty index in which the first listed instance of a key stays.
IndexByKey_FirstWins(a, listing) ==
    LET kept == {i \in DOMAIN listing : HookKeeps(a, listing[i])}
        keys == {HookKey(a, listing[i]) : i \in kept}
    IN  [k \in keys |->
            listing[CHOOSE i \in kept : /\ HookKey(a, listing[i]) = k
                                       /\ \A j \in kept : HookKey(a, listing[j]) = k => i <= j]]

\* the dict a loop of cache[key(r)] = r over the listing leaves
IndexByKey(a, listing) ==
    LET kept == {i \in DOMAIN listing : HookKeeps(a, listing[i])}
        keys == {HookKey(a, listing[i]) : i \in kept}
    IN  [k \in keys |-> listing[MaxOf({i \in kept : HookKey(a, listing[i]) = k})]]

\* the truthy webhook_data.get("name") of the entries of a state mapping
StateNames(st) ==
    {n \in {Get(st[i], "name", None) : i \in DOMAIN st} : Truthy(n)}

NamedAt(d, n) == {i \in DOMAIN d : Index(d[i], "name") = n}

\* the names get_destination_webhooks fetches
WebhookFetched(stD, stS, d, failing) ==
    LET first == {n \in StateNames(stD) : n \notin failing /\ NamedAt(d, n) # {}}
    IN  StateNames(stD) \cup (StateNames(stS) \ first)

\* WebhooksIntegration.get_destination_webhooks
Webhooks_get_destination_webhooks(stD, stS, d, failing) ==
    LET found == {n \in WebhookFetched(stD, stS, d, failing) :
                     n \notin failing /\ NamedAt(d, n) # {}}
    IN  [n \in found |-> d[CHOOSE i \in NamedAt(d, n) : \A j \in NamedAt(d, n) : i <= j]]

\* the cache pre_apply_hook assigns
HookCache(a, stD, stS, d, failing) ==
    IF a = "webhooks" THEN Webhooks_get_destination_webhooks(stD, stS, d, failing)
    ELSE IndexByKey(a, ListOf(a, d, failing))

\* the warnings the hook logs
HookWarnings(a, stD, stS, d, failing) ==
    CASE a = "webhooks" -> Cardinality(failing \cap WebhookFetched(stD, stS, d, failing))
      [] a = "slack" -> Cardinality(failing)
      [] OTHER -> 0

\* the fetches of the hook that can fail one by one
HookFetches(a, stD, stS, d) ==
    CASE a = "webhooks" -> WebhookFetched(stD, stS, d, {})
      [] a = "slack" ->
           {n \in {Slack_account_name(SlackAccounts[i]) : i \in DOMAIN SlackAccounts} : Truthy(n)}
      [] OTHER -> {}

HookOutcomes(a, stD, stS, d) ==
    {[listFails |-> lf, failing |-> F] :
        lf \in (IF a = "webhooks" THEN {FALSE} ELSE BOOLEAN),
        F \in {{}} \cup {{n} : n \in HookFetches(a, stD, stS, d)}}

(***************************************************************************)
(* The instances of the model: per adapter, source instances (two with the *)
(* same Identity Key and different payloads, one with another key), the    *)
(* objects the destination may hold before the first run, and a State      *)
(* Store entry left by an earlier run.                                     *)
(***************************************************************************)
\* a service definition schema: v2 names the service "dd-service", v3 "name"
SchemaOf(nameField, service, team) ==
    [f \in {nameField, "team"} |-> IF f = nameField THEN service ELSE team]

SrcUniverse(a) ==
    CASE a = "aws" ->
           {[account_id |-> <<"1">>, role_name |-> <<"R">>, host_tags |-> <<"x">>],
            [account_id |-> <<"1">>, role_name |-> <<"R">>, host_tags |-> <<"y">>],
            [account_id |-> <<"1">>, role_name |-> <<"R">>, access_key_id |-> <<"K">>,
             host_tags |-> <<"x">>]}
      [] a = "azure" ->
           {[tenant_name |-> <<"T">>, client_id |-> <<"C">>, host_filters |-> <<"x">>],
            [tenant_name |-> <<"T">>, client_id |-> <<"C">>, host_filters |-> <<"y">>],
            [tenant_name |-> <<"T">>, client_id |-> <<"E">>, host_filters |-> <<"x">>]}
      [] a = "fastly" ->
           {[id |-> <<"s1">>, attributes |-> [name |-> <<"n">>, api_key |-> <<"x">>]],
            [id |-> <<"s2">>, attributes |-> [name |-> <<"n">>, api_key |-> <<"y">>]],
            [id |-> <<"s3">>, attributes |-> [name |-> <<"m">>, api_key |-> <<"x">>]]}
      [] a = "gcp" ->
           {[id |-> <<"s1">>, attributes |-> [client_email |-> <<"e">>, automute |-> <<"x">>]],
            [id |-> <<"s2">>, attributes |-> [client_email |-> <<"e">>, automute |-> <<"y">>]],
            [id |-> <<"s3">>, attributes |-> [automute |-> <<"x">>]]}
      [] a = "pagerduty" ->
           {[service_name |-> <<"p">>, service_key |-> <<"x">>],
            [service_name |-> <<"p">>, service_key |-> <<"y">>],
            [service_name |-> <<"q">>, service_key |-> <<"x">>]}
      [] a = "service_definition" ->
           {[attributes |-> [schema |-> SchemaOf("dd-service", <<"a">>, <<"x">>)]],
            [attributes |-> [schema |-> SchemaOf("dd-service", <<"a">>, <<"y">>)]],
            [attributes |-> [schema |-> SchemaOf("name", <<"b">>, <<"x">>)]]}
      [] a = "slack" ->
           {[_account_name |-> <<"w">>, channel_name |-> <<"#", "c">>, display |-> <<"x">>],
            [_account_name |-> <<"w">>, channel_name |-> <<"#", "c">>, display |-> <<"y">>],
            [_account_name |-> <<"v">>, name |-> <<"#", ":", "c">>, display |-> <<"x">>]}
      [] a = "webhooks" ->
           {[name |-> <<"h">>, url |-> <<"x">>],
            [name |-> <<"h">>, url |-> <<"y">>],
            [name |-> <<"g">>, url |-> <<"x">>]}

DestUniverse(a) ==
    CASE a = "aws" ->
           {[account_id |-> <<"1">>, role_name |-> <<"R">>, host_tags |-> <<"z">>]}
      [] a = "azure" ->
           {[tenant_name |-> <<"T">>, client_id |-> <<"C">>, host_filters |-> <<"z">>]}
      [] a = "fastly" ->
           {[id |-> <<"d1">>, attributes |-> [name |-> <<"n">>, api_key |-> <<"z">>]]}
      [] a = "gcp" ->
           {[id |-> <<"d1">>, attributes |-> [client_email |-> <<"e">>, automute |-> <<"z">>]]}
      [] a = "pagerduty" -> {[service_name |-> <<"p">>, service_key |-> <<"z">>]}
      [] a = "service_definition" ->
           {[attributes |-> [schema |-> SchemaOf("dd-service", <<"a">>, <<"z">>)]]}
      [] a = "slack" ->
           {[account |-> <<"w">>, channel |-> [channel_name |-> <<"#", "c">>, display |-> <<"z">>]]}
      [] a = "webhooks" -> {[name |-> <<"h">>, url |-> <<"z">>]}

\* what an earlier run left in state.destination: the object it then wrote
\* for the first source instance, which the destination may hold no longer
StaleState(a) ==
    CASE a = "aws" ->
           [k \in {<<"1", ":", "R">>} |->
               [account_id |-> <<"1">>, role_name |-> <<"R">>, host_tags |-> <<"o">>]]
      [] a = "azure" ->
           [k \in {<<"T", ":", "C">>} |->
               [tenant_name |-> <<"T">>, client_id |-> <<"C">>, host_filters |-> <<"o">>]]
      [] a = "fastly" ->
           [k \in {<<"s1">>} |->
               [id |-> <<"d9">>, attributes |-> [name |-> <<"n">>, api_key |-> <<"o">>]]]
      [] a = "gcp" ->
           [k \in {<<"s1">>} |->
               [id |-> <<"d9">>, attributes |-> [client_email |-> <<"e">>, automute |-> <<"o">>]]]
      [] a = "pagerduty" ->
           [k \in {<<"p">>} |-> [service_name |-> <<"p">>, service_key |-> <<"o">>]]
      [] a = "service_definition" ->
           [k \in {<<"a">>} |->
               [attributes |-> [schema |-> SchemaOf("dd-service", <<"a">>, <<"o">>)]]]
      [] a = "slack" ->
           [k \in {<<"w", ":", "#", "c">>} |->
               [_account_name |-> <<"w">>, channel_name |-> <<"#", "c">>, display |-> <<"o">>]]
      [] a = "webhooks" ->
           [k \in {<<"h">>} |-> [name |-> <<"h">>, url |-> <<"o">>]]

SeqsUpTo(S, n) == UNION {[1..m -> S] : m \in 0..n}

\* state.source after the import of the items: the later of two instances
\* with one identity stays
SourceState(a, its) ==
    LET ids == {ImportId(a, its[i]) : i \in DOMAIN its}
    IN  [k \in ids |-> its[MaxOf({i \in DOMAIN its : ImportId(a, its[i]) = k})]]

(***************************************************************************)
(* Calls of the adapter.  calls[t] is the frame of task t: the method      *)
(* called, its arguments, where it stands (idle, wait: suspended at the    *)
(* await of its request, done, raised), the request it issued and what it  *)
(* returned.  An action runs from one await to the next.                   *)
(***************************************************************************)
Tasks == 1..MaxItems
NoRet == [noret |-> TRUE]
Absent == [absent |-> TRUE]

IdleFrame ==
    [op |-> "none", pc |-> "idle", id |-> EmptyStr, res |-> EmptyDict, upsert |-> FALSE,
     req |-> NoReq, ret |-> NoRet, pre |-> Absent, hooked |-> FALSE,
     err |-> "none", seq |-> 0]

\* state.destination[resource_type].get(_id), Absent for no entry
Lookup(st, _id) == IF _id \in DOMAIN st THEN st[_id] ELSE Absent

\* the frame of a call as it starts: pre is the State Store entry of _id
\* then, hooked whether pre_apply_hook had completed, seq the number of
\* calls that had ended
Called(op, _id, resource) ==
    [IdleFrame EXCEPT !.op = op, !.id = _id, !.res = resource,
                      !.pre = Lookup(stateDst, _id), !.hooked = (phase = "apply"),
                      !.seq = Len(finished)]

Raise(t, f) ==
    /\ calls' = [calls EXCEPT ![t] = [f EXCEPT !.pc = "raised", !.err = "KeyError"]]
    /\ finished' = Append(finished, t)
    /\ reqs' = reqs

Issue(t, f, rq) ==
    /\ calls' = [calls EXCEPT ![t] = [f EXCEPT !.pc = "wait", !.req = rq]]
    /\ reqs' = Append(reqs, [task |-> t, seq |-> f.seq, req |-> rq])
    /\ finished' = finished

\* A faulty create_resource that calls update_resource before it stores the
\* cached instance.
CreateCall_StoreAfter(t, _id, resource) ==
    LET k == CreateLookupKey(adapter, _id, resource)
        upsert == TakesUpsertPath(adapter, _id, resource, cache)
        f == [Called("create", _id, resource) EXCEPT !.upsert = upsert]
    IN  /\ dest' = dest
        /\ IF k = KeyError
             THEN stateDst' = stateDst /\ Raise(t, f)
           ELSE IF upsert
             THEN /\ stateDst' = Put(stateDst, _id, cache[k])
                  /\ IF UpdateRaises(adapter, _id, resource, stateDst)
                       THEN Raise(t, f)
                       ELSE Issue(t, f, UpdateRequest(adapter, _id, resource, stateDst))
           ELSE stateDst' = stateDst /\ Issue(t, f, CreateRequest(adapter, _id, resource))

\* create_resource up to the await of its request: the cache lookup, the
\* State Store write of the upsert path, and the request
CreateCall(t, _id, resource) ==
    LET k == CreateLookupKey(adapter, _id, resource)
        upsert == TakesUpsertPath(adapter, _id, resource, cache)
        f == [Called("create", _id, resource) EXCEPT !.upsert = upsert]
        st1 == Put(stateDst, _id, cache[k])
    IN  /\ dest' = dest
        /\ IF k = KeyError
             THEN stateDst' = stateDst /\ Raise(t, f)
           ELSE IF upsert
             THEN /\ stateDst' = st1
                  /\ IF UpdateRaises(adapter, _id, resource, st1)
                       THEN Raise(t, f)
                       ELSE Issue(t, f, UpdateRequest(adapter, _id, resource, st1))
           ELSE stateDst' = stateDst /\ Issue(t, f, CreateRequest(adapter, _id, resource))

\* A faulty create_resource that records what it writes in the cache.
CreateResource_Caching(t, _id, resource) ==
    /\ CreateCall(t, _id, resource)
    /\ cache' = IF CreateLookupKey(adapter, _id, resource) = KeyError
                  THEN cache
                  ELSE Put(cache, CreateLookupKey(adapter, _id, resource), resource)

\* create_resource up to the await of its request; it leaves the cache alone
CreateResource(t, _id, resource) ==
    /\ CreateCall(t, _id, resource)
    /\ cache' = cache

\* update_resource up to the await of its request
UpdateResource(t, _id, resource) ==
    LET f == Called("update", _id, resource)
    IN  /\ cache' = cache
        /\ dest' = dest
        /\ stateDst' = stateDst
        /\ IF UpdateRaises(adapter, _id, resource, stateDst)
             THEN Raise(t, f)
             ELSE Issue(t, f, UpdateRequest(adapter, _id, resource, stateDst))

\* delete_resource up to the await of its request
DeleteResource(t, _id) ==
    LET f == Called("delete", _id, EmptyDict)
    IN  /\ cache' = cache
        /\ dest' = dest
        /\ stateDst' = stateDst
        /\ IF DeleteRaises(adapter, _id, stateDst)
             THEN Raise(t, f)
             ELSE Issue(t, f, DeleteRequest(adapter, _id, stateDst))

\* what the suspended call of frame f returns for response resp
ReturnValue(a, f, resp) ==
    CASE f.req.via = "create" -> CreateReturn(a, f.id, f.res, resp)
      [] f.req.via = "update" -> UpdateReturn(a, f.id, f.res, resp)
      [] f.req.via = "delete" -> NoRet

\* the request of task t is answered with resp and the call returns
ReturnOk(t, resp) ==
    /\ calls[t].pc = "wait"
    /\ DestAccepts(adapter, calls[t].req, dest)
    /\ resp \in DestResponses(adapter, calls[t].req, dest)
    /\ dest' = DestApply(adapter, calls[t].req, dest)
    /\ calls' = [calls EXCEPT ![t].pc = "done",
                              ![t].ret = ReturnValue(adapter, calls[t], resp)]
    /\ finished' = Append(finished, t)
    /\ UNCHANGED <<cache, reqs>>

\* the request of task t fails and the call raises
ReturnFail(t) ==
    /\ calls[t].pc = "wait"
    /\ calls' = [calls EXCEPT ![t].pc = "raised", ![t].err = "HTTPError"]
    /\ finished' = Append(finished, t)
    /\ UNCHANGED <<cache, reqs, dest, stateDst>>

\* pre_apply_hook with fetch outcome o
PreApplyHook(o) ==
    IF o.listFails
    THEN /\ phase' = "aborted"
         /\ UNCHANGED <<cache, warnings>>
         /\ history' = [history EXCEPT !.hookClean = FALSE, !.hookWarnings = warnings]
    ELSE /\ phase' = "apply"
         /\ cache' = HookCache(adapter, stateDst, stateSrc, dest, o.failing)
         /\ warnings' = warnings + HookWarnings(adapter, stateDst, stateSrc, dest, o.failing)
         /\ history' = [history EXCEPT
                            !.hookClean = (o.failing = {}),
                            !.hookWarnings =
                                warnings + HookWarnings(adapter, stateDst, stateSrc, dest, o.failing)]

\* the values of instances, pager and probe where they play no part
NoInstances == [unused |-> TRUE]
NoPager == [unused |-> TRUE]
NoProbe == [unused |-> TRUE]

(***************************************************************************)
(* The reconciliation engine: one apply run is pre_apply_hook, then        *)
(* create_resource for every source instance, each result recorded in the *)
(* State Store when the call has returned.  Instances are reconciled       *)
(* concurrently, except that two writes of one identity never overlap.     *)
(***************************************************************************)
Finished(t) == calls[t].pc \in {"done", "raised"}
InFlight(t) == calls[t].pc = "wait"

\* A faulty persistence that keeps the first result of an identity.
Persist_KeepFirst(st, f, ret) ==
    IF f.op = "delete" THEN [k \in (DOMAIN st) \ {f.id} |-> st[k]]
    ELSE IF f.id \in DOMAIN st THEN st
    ELSE Put(st, f.id, ret)

\* The State Store after the completed call of frame f returned ret: an
\* entry is created or overwritten by a create or update, removed by a delete.
Persist(st, f, ret) ==
    IF f.op = "delete" THEN [k \in (DOMAIN st) \ {f.id} |-> st[k]]
    ELSE Put(st, f.id, ret)

\* A faulty engine that starts items without waiting for the hook.
EngineMayStart_NoBarrier(t) ==
    /\ t \in DOMAIN items
    /\ calls[t].pc = "idle"
    /\ \A u \in Tasks \ {t} :
          InFlight(u) =>
              /\ calls[u].id # ImportId(adapter, items[t])
              /\ CreateLookupKey(adapter, calls[u].id, calls[u].res)
                     # CreateLookupKey(adapter, ImportId(adapter, items[t]), items[t])

\* Whether the engine may start the reconciliation of item t: the hook has
\* completed, and no write of the same identity is in flight.
EngineMayStart(t) ==
    /\ phase = "apply"
    /\ t \in DOMAIN items
    /\ calls[t].pc = "idle"
    /\ \A u \in Tasks \ {t} :
          InFlight(u) =>
              /\ calls[u].id # ImportId(adapter, items[t])
              /\ CreateLookupKey(adapter, calls[u].id, calls[u].res)
                     # CreateLookupKey(adapter, ImportId(adapter, items[t]), items[t])

EngineHook ==
    /\ phase = "idle"
    /\ \E o \in HookOutcomes(adapter, stateDst, stateSrc, dest) : PreApplyHook(o)
    /\ UNCHANGED <<adapter, items, stateSrc, stateDst, dest, run, calls, reqs, finished>>
    /\ UNCHANGED <<instances, pager, probe>>

EngineStart(t) ==
    /\ EngineMayStart(t)
    /\ CreateResource(t, ImportId(adapter, items[t]), items[t])
    /\ UNCHANGED <<adapter, items, stateSrc, phase, run, warnings, history>>
    /\ UNCHANGED <<instances, pager, probe>>

EngineOk(t) ==
    /\ InFlight(t)
    /\ DestAccepts(adapter, calls[t].req, dest)
    /\ \E resp \in DestResponses(adapter, calls[t].req, dest) :
          /\ ReturnOk(t, resp)
          /\ stateDst' = Persist(stateDst, calls[t], ReturnValue(adapter, calls[t], resp))
    /\ UNCHANGED <<adapter, items, stateSrc, phase, run, warnings, history>>
    /\ UNCHANGED <<instances, pager, probe>>

EngineFail(t) ==
    /\ ReturnFail(t)
    /\ UNCHANGED <<adapter, items, stateSrc, phase, run, warnings, history>>
    /\ UNCHANGED <<instances, pager, probe>>

\* The next run: a new process, whose adapter starts with the class-level
\* cache; the State Store and the destination stay.
EngineNextRun ==
    /\ run < MaxRuns
    /\ phase \in {"apply", "aborted"}
    /\ phase = "apply" => \A t \in DOMAIN items : Finished(t)
    /\ run' = run + 1
    /\ phase' = "idle"
    /\ cache' = EmptyDict
    /\ calls' = [t \in Tasks |-> IdleFrame]
    /\ reqs' = <<>>
    /\ finished' = <<>>
    /\ warnings' = 0
    /\ history' = [prevClean |-> /\ phase = "apply"
                                 /\ history.hookClean
                                 /\ \A t \in DOMAIN items : calls[t].pc = "done",
                   hookClean |-> FALSE,
                   hookWarnings |-> 0]
    /\ UNCHANGED <<adapter, items, stateSrc, stateDst, dest>>
    /\ UNCHANGED <<instances, pager, probe>>

Init ==
    /\ adapter \in Adapters
    /\ items \in SeqsUpTo(SrcUniverse(adapter), MaxItems) \ {<<>>}
    /\ stateSrc = SourceState(adapter, items)
    /\ stateDst \in {EmptyDict, StaleState(adapter)}
    /\ dest \in SeqsUpTo(DestUniverse(adapter), MaxDest)
    /\ cache = EmptyDict
    /\ phase = "idle"
    /\ run = 1
    /\ calls = [t \in Tasks |-> IdleFrame]
    /\ reqs = <<>>
    /\ finished = <<>>
    /\ warnings = 0
    /\ history = [prevClean |-> FALSE, hookClean |-> FALSE, hookWarnings |-> 0]
    /\ instances = NoInstances
    /\ pager = NoPager
    /\ probe = NoProbe

Next ==
    \/ EngineHook
    \/ \E t \in Tasks : EngineStart(t)
    \/ \E t \in Tasks : EngineOk(t)
    \/ \E t \in Tasks : EngineFail(t)
    \/ EngineNextRun

Spec == Init /\ [][Next]_vars

(***************************************************************************)
(* The adapter under any caller: pre_apply_hook, create_resource,          *)
(* update_resource and delete_resource called one at a time, in any order  *)
(* and for any identity, each completed call recorded in the State Store.  *)
(***************************************************************************)
\* calls made in one behaviour
MaxCalls == 2

IdUniverse(a) == {ImportId(a, r) : r \in SrcUniverse(a)}

CallerMayCall == Len(finished) < MaxCalls /\ ~InFlight(1)

CallHook ==
    /\ phase = "idle"
    /\ ~InFlight(1)
    /\ \E o \in HookOutcomes(adapter, stateDst, stateSrc, dest) : PreApplyHook(o)
    /\ UNCHANGED <<adapter, items, stateSrc, stateDst, dest, run, calls, reqs, finished>>
    /\ UNCHANGED <<instances, pager, probe>>

CallCreate ==
    /\ CallerMayCall
    /\ \E r \in SrcUniverse(adapter) : CreateResource(1, ImportId(adapter, r), r)
    /\ UNCHANGED <<adapter, items, stateSrc, phase, run, warnings, history>>
    /\ UNCHANGED <<instances, pager, probe>>

CallUpdate ==
    /\ CallerMayCall
    /\ \E r \in SrcUniverse(adapter) : UpdateResource(1, ImportId(adapter, r), r)
    /\ UNCHANGED <<adapter, items, stateSrc, phase, run, warnings, history>>
    /\ UNCHANGED <<instances, pager, probe>>

CallDelete ==
    /\ CallerMayCall
    /\ \E _id \in IdUniverse(adapter) : DeleteResource(1, _id)
    /\ UNCHANGED <<adapter, items, stateSrc, phase, run, warnings, history>>
    /\ UNCHANGED <<instances, pager, probe>>

\* probe keeps the response the caller's client handed back last
CallOk ==
    /\ InFlight(1)
    /\ DestAccepts(adapter, calls[1].req, dest)
    /\ \E resp \in DestResponses(adapter, calls[1].req, dest) :
          /\ ReturnOk(1, resp)
          /\ stateDst' = Persist(stateDst, calls[1], ReturnValue(adapter, calls[1], resp))
          /\ probe' = [resp |-> resp]
    /\ UNCHANGED <<adapter, items, stateSrc, phase, run, warnings, history>>
    /\ UNCHANGED <<instances, pager>>

CallFail ==
    /\ ReturnFail(1)
    /\ UNCHANGED <<adapter, items, stateSrc, phase, run, warnings, history>>
    /\ UNCHANGED <<instances, pager, probe>>

InitCalls ==
    /\ adapter \in Adapters
    /\ items = <<>>
    /\ stateSrc \in {SourceState(adapter, <<r>>) : r \in SrcUniverse(adapter)}
    /\ stateDst \in {EmptyDict, StaleState(adapter)}
    /\ dest \in SeqsUpTo(DestUniverse(adapter), MaxDest)
    /\ cache = EmptyDict
    /\ phase = "idle"
    /\ run = 1
    /\ calls = [t \in Tasks |-> IdleFrame]
    /\ reqs = <<>>
    /\ finished = <<>>
    /\ warnings = 0
    /\ history = [prevClean |-> FALSE, hookClean |-> FALSE, hookWarnings |-> 0]
    /\ instances = NoInstances
    /\ pager = NoPager
    /\ probe = NoProbe

NextCalls ==
    \/ CallHook
    \/ CallCreate
    \/ CallUpdate
    \/ CallDelete
    \/ CallOk
    \/ CallFail

SpecCalls == InitCalls /\ [][NextCalls]_vars

(***************************************************************************)
(* Properties.                                                             *)
(***************************************************************************)
\* the Identity Key create_resource looks up for task t's instance is in the
\* Destination Cache
KeyInCache(t) ==
    CreateLookupKey(adapter, calls[t].id, calls[t].res) \in DOMAIN cache

\* the requests of task t's call that the method `via` issued
ReqsOf(t, via) ==
    {i \in DOMAIN reqs : /\ reqs[i].task = t
                         /\ reqs[i].seq = calls[t].seq
                         /\ reqs[i].req.via = via}

\* position of task t in the order in which calls ended (0: not ended)
EndedAt(t) ==
    IF \E i \in DOMAIN finished : finished[i] = t
      THEN CHOOSE i \in DOMAIN finished : finished[i] = t
      ELSE 0

\* C1: a create_resource call for an instance whose Identity Key is in the
\* Destination Cache issues no create request and exactly one update
\* request; for AWS that one request is a PUT and the call issues no POST.
C1_UpsertNeverCreates ==
    \A t \in Tasks :
        (calls[t].op = "create" /\ calls[t].pc # "idle" /\ KeyInCache(t)) =>
            /\ ReqsOf(t, "create") = {}
            /\ Cardinality(ReqsOf(t, "update")) = 1
            /\ adapter = "aws" =>
                  \A i \in DOMAIN reqs :
                      (reqs[i].task = t /\ reqs[i].seq = calls[t].seq) =>
                          reqs[i].req.method = "PUT"

\* an AWS create_resource call for a key in the cache that has completed
C1_Witness ==
    \E t \in Tasks :
        /\ adapter = "aws"
        /\ calls[t].op = "create"
        /\ calls[t].pc = "done"
        /\ KeyInCache(t)
        /\ Cardinality(ReqsOf(t, "update")) = 1

\* C2: in a run that follows a run whose operations all completed, against
\* an unchanged source and with a completely fetched cache, no create
\* request is issued.
C2_SecondRunCreatesNothing ==
    (run > 1 /\ history.prevClean /\ history.hookClean) =>
        \A i \in DOMAIN reqs : reqs[i].req.via # "create"

\* C3: no create/update/delete call starts, reads the cache or issues a
\* request before pre_apply_hook has completed in that run.
C3_PreApplyBarrier ==
    /\ \A t \in Tasks : calls[t].op # "none" => calls[t].hooked
    /\ phase = "idle" => (reqs = <<>> /\ \A t \in Tasks : calls[t].op = "none")

\* a call that found its key in the cache the hook had built
C3_Witness ==
    \E t \in Tasks : calls[t].pc = "done" /\ calls[t].upsert /\ calls[t].hooked

\* C4: for one Identity Key absent from the cache, at most one create
\* request is issued in a run.
C4_AtMostOneCreatePerKey ==
    \A i, j \in DOMAIN reqs :
        LET ti == reqs[i].task
            tj == reqs[j].task
        IN  (/\ reqs[i].req.via = "create"
             /\ reqs[j].req.via = "create"
             /\ CreateLookupKey(adapter, calls[ti].id, calls[ti].res)
                  = CreateLookupKey(adapter, calls[tj].id, calls[tj].res)
             /\ ~KeyInCache(ti)) => i = j

\* C5: when the request of a call fails, the State Store's destination
\* entry of that identity is what it was before the call.
C5_FailedCallLeavesStateStore ==
    [][\A t \in Tasks :
          (calls[t].pc = "wait" /\ calls'[t].pc = "raised") =>
              Lookup(stateDst', calls[t].id) = calls[t].pre]_vars

\* C8: the Destination Cache changes only when pre_apply_hook builds it (or
\* a new process starts with an empty one); no create, update or delete
\* changes it.
C8_CacheOnlyByHook ==
    [][cache' # cache => ((phase = "idle" /\ phase' = "apply") \/ run' # run)]_vars

\* a create has written a new object to the destination and its key is
\* still not in the cache
C8_Witness ==
    \E t \in Tasks :
        /\ calls[t].op = "create"
        /\ calls[t].pc = "done"
        /\ ~calls[t].upsert
        /\ ~KeyInCache(t)
        /\ cache # EmptyDict

\* tasks whose instance has the identity of task u's
SameId(u) == {t \in Tasks : calls[t].op # "none" /\ calls[t].id = calls[u].id}

\* C9: of the source instances with one Identity Key that is in the cache,
\* each takes the update path, the code raises nothing and logs nothing for
\* them, and the State Store entry is the result of the one that ended last.
C9_LastWriteWins ==
    /\ \A u \in Tasks :
          (calls[u].op = "create" /\ calls[u].pc # "idle" /\ KeyInCache(u)) =>
              /\ calls[u].upsert
              /\ calls[u].err # "KeyError"
              /\ (/\ calls[u].pc = "done"
                  /\ \A t \in SameId(u) : ~InFlight(t) /\ EndedAt(t) <= EndedAt(u))
                    => Lookup(stateDst, calls[u].id) = calls[u].ret
    /\ phase = "apply" => warnings = history.hookWarnings

\* two instances of one identity have both been updated and the entry is
\* the second result, which differs from the first
C9_Witness ==
    \E t, u \in Tasks :
        /\ t # u
        /\ calls[t].id = calls[u].id
        /\ calls[t].pc = "done" /\ calls[u].pc = "done"
        /\ calls[t].upsert /\ calls[u].upsert
        /\ EndedAt(t) < EndedAt(u)
        /\ calls[t].ret # calls[u].ret
        /\ Lookup(stateDst, calls[u].id) = calls[u].ret

\* the adapters whose update_resource and delete_resource index the State
\* Store entry
Strict == {"fastly", "gcp", "pagerduty", "webhooks"}

\* the call of the caller is an update_resource or delete_resource for an
\* identity the State Store had no entry of
MissingEntryCall ==
    calls[1].op \in {"update", "delete"} /\ calls[1].pre = Absent

\* C6: as the source has it (the statement for every adapter is
\* C6_MissingEntryIsFatal): update_resource or delete_resource for an
\* identity without a State Store entry raises KeyError and issues no
\* request in the Fastly, GCP, PagerDuty and Webhooks adapters, and issues
\* its request without raising in the AWS, Azure, service_definition and
\* Slack adapters.
C6_MissingEntryByAdapter ==
    MissingEntryCall =>
        IF adapter \in Strict
          THEN /\ calls[1].pc = "raised"
               /\ calls[1].err = "KeyError"
               /\ calls[1].req = NoReq
               /\ ReqsOf(1, calls[1].op) = {}
          ELSE /\ calls[1].err # "KeyError"
               /\ calls[1].req # NoReq
               /\ Cardinality(ReqsOf(1, calls[1].op)) = 1

\* C6 as stated: in every adapter the call raises and issues no request
C6_MissingEntryIsFatal ==
    MissingEntryCall =>
        /\ calls[1].pc = "raised"
        /\ calls[1].err = "KeyError"
        /\ calls[1].req = NoReq

\* a Fastly update_resource without a State Store entry has raised
C6_Witness ==
    /\ adapter = "fastly"
    /\ calls[1].op = "update"
    /\ calls[1].pre = Absent
    /\ calls[1].pc = "raised"
    /\ calls[1].err = "KeyError"

\* C7: the Azure delete_resource for an identity without a State Store
\* entry raises nothing and issues exactly one request, a DELETE to the
\* base path whose body has tenant_name None and client_id None.
C7_AzureDeleteMissingState ==
    (adapter = "azure" /\ calls[1].op = "delete" /\ calls[1].pre = Absent) =>
        /\ calls[1].err # "KeyError"
        /\ calls[1].req = Request("delete", "DELETE", <<>>, EmptyDict,
                                  [tenant_name |-> None, client_id |-> None])
        /\ \A i \in DOMAIN reqs :
              (reqs[i].task = 1 /\ reqs[i].seq = calls[1].seq) => reqs[i].req = calls[1].req
        /\ Cardinality(ReqsOf(1, "delete")) = 1

\* the Azure delete_resource without a State Store entry has issued its
\* request
C7_Witness ==
    /\ adapter = "azure"
    /\ calls[1].op = "delete"
    /\ calls[1].pre = Absent
    /\ calls[1].pc = "wait"
    /\ calls[1].req.method = "DELETE"

\* an update request of the caller is in flight
UpdateInFlight == calls[1].pc = "wait" /\ calls[1].req.via = "update"

\* the value update_resource of the AWS adapter sends for a parameter: the
\* State Store entry's, the payload's where the entry has none
AWS_param(field) ==
    LET entry == IF calls[1].id \in DOMAIN stateDst THEN stateDst[calls[1].id] ELSE EmptyDict
    IN  Get(entry, field, Get(calls[1].res, field, None))

\* C10: as the source has it (the statement for every adapter is
\* C10_TargetFromStateEntry): the update request of the Fastly, GCP,
\* PagerDuty and Webhooks adapters addresses the id, service_name or name of
\* the State Store entry of the identity; AWS sends the entry's account_id
\* and role_name or access_key_id, the payload's where the entry has none;
\* Slack addresses the account and channel the identity string names;
\* Azure and service_definition send the payload to the base path.
C10_TargetByAdapter ==
    UpdateInFlight =>
        LET f == calls[1]
        IN  CASE adapter \in {"fastly", "gcp"} ->
                   f.id \in DOMAIN stateDst /\ f.req.path = <<stateDst[f.id]["id"]>>
              [] adapter = "pagerduty" ->
                   f.id \in DOMAIN stateDst /\ f.req.path = <<stateDst[f.id]["service_name"]>>
              [] adapter = "webhooks" ->
                   f.id \in DOMAIN stateDst /\ f.req.path = <<stateDst[f.id]["name"]>>
              [] adapter = "aws" ->
                   /\ f.req.path = <<>>
                   /\ "account_id" \in DOMAIN f.req.params
                   /\ \A p \in DOMAIN f.req.params : f.req.params[p] = AWS_param(p)
              [] adapter = "slack" ->
                   /\ Len(f.req.path) = 3
                   /\ f.req.path[1] \o Colon \o f.req.path[3] = f.id
              [] adapter \in {"azure", "service_definition"} ->
                   f.req.path = <<>> /\ f.req.params = EmptyDict

\* C10 as stated: in every adapter there is a State Store entry of the
\* identity and the request's target is that entry's
C10_TargetFromStateEntry ==
    UpdateInFlight =>
        LET f == calls[1]
        IN  /\ f.id \in DOMAIN stateDst
            /\ adapter \in {"fastly", "gcp"} => f.req.path = <<stateDst[f.id]["id"]>>
            /\ adapter = "pagerduty" => f.req.path = <<stateDst[f.id]["service_name"]>>
            /\ adapter = "webhooks" => f.req.path = <<stateDst[f.id]["name"]>>
            /\ adapter = "aws" =>
                  \A p \in DOMAIN f.req.params : f.req.params[p] = stateDst[f.id][p]

\* a Fastly update addresses the State Store entry's id where the cache has
\* another id for the account's name and the payload a third
C10_Witness ==
    /\ adapter = "fastly"
    /\ UpdateInFlight
    /\ calls[1].op = "update"
    /\ calls[1].id \in DOMAIN stateDst
    /\ calls[1].req.path = <<stateDst[calls[1].id]["id"]>>
    /\ Fastly_account_name(calls[1].res) \in DOMAIN cache
    /\ cache[Fastly_account_name(calls[1].res)]["id"] # stateDst[calls[1].id]["id"]
    /\ calls[1].res["id"] # stateDst[calls[1].id]["id"]

\* the requests the current call of the caller has issued
ReqsOfCall ==
    {i \in DOMAIN reqs : reqs[i].task = 1 /\ reqs[i].seq = calls[1].seq}

\* the State Store entry the current call found, {} for none
EntryFound == IF calls[1].pre = Absent THEN EmptyDict ELSE calls[1].pre

\* C11: as the source has it (the statement for every adapter is
\* C11_DeleteFromStateEntry): delete_resource issues no request but
\* DELETE; the Fastly, GCP, PagerDuty and Webhooks adapters issue exactly
\* one, to the id, service_name or name of the State Store entry, and none
\* (KeyError) where there is no entry; AWS and Azure issue exactly one
\* whose body holds the entry's key fields, None for an absent one;
\* service_definition and Slack issue exactly one to the object the
\* identity string names.
C11_DeleteByAdapter ==
    (calls[1].op = "delete") =>
        LET f == calls[1]
        IN  /\ \A i \in ReqsOfCall : reqs[i].req.method = "DELETE"
            /\ CASE adapter \in Strict ->
                     IF f.pre = Absent
                       THEN ReqsOfCall = {} /\ f.err = "KeyError"
                       ELSE /\ Cardinality(ReqsOfCall) = 1
                            /\ f.req.path =
                                 <<f.pre[CASE adapter \in {"fastly", "gcp"} -> "id"
                                           [] adapter = "pagerduty" -> "service_name"
                                           [] adapter = "webhooks" -> "name"]>>
                 [] adapter = "aws" ->
                     /\ Cardinality(ReqsOfCall) = 1
                     /\ f.req.path = <<>>
                     /\ "account_id" \in DOMAIN f.req.body
                     /\ \A p \in DOMAIN f.req.body :
                           f.req.body[p] = Get(EntryFound, p, None)
                 [] adapter = "azure" ->
                     /\ Cardinality(ReqsOfCall) = 1
                     /\ f.req.path = <<>>
                     /\ f.req.body = [tenant_name |-> Get(EntryFound, "tenant_name", None),
                                      client_id |-> Get(EntryFound, "client_id", None)]
                 [] adapter = "service_definition" ->
                     Cardinality(ReqsOfCall) = 1 /\ f.req.path = <<f.id>>
                 [] adapter = "slack" ->
                     /\ Cardinality(ReqsOfCall) = 1
                     /\ Len(f.req.path) = 3
                     /\ f.req.path[1] \o Colon \o f.req.path[3] = f.id

\* C11 as stated: in every adapter the call issues exactly one request, a
\* DELETE, and there is a State Store entry whose object it addresses
C11_DeleteFromStateEntry ==
    (calls[1].op = "delete") =>
        /\ Cardinality(ReqsOfCall) = 1
        /\ \A i \in ReqsOfCall : reqs[i].req.method = "DELETE"
        /\ calls[1].pre # Absent

\* a Fastly delete addresses the State Store entry's id where the cache has
\* another id for the account's name
C11_Witness ==
    /\ adapter = "fastly"
    /\ calls[1].op = "delete"
    /\ calls[1].pc = "wait"
    /\ calls[1].pre # Absent
    /\ calls[1].req.path = <<calls[1].pre["id"]>>
    /\ cache # EmptyDict
    /\ \A k \in DOMAIN cache : cache[k]["id"] # calls[1].pre["id"]

(***************************************************************************)
(* Two instances of one adapter class in one process.  The cache is a      *)
(* class attribute initialised to {}; self.<cache> reads the instance's    *)
(* own attribute where one has been assigned and the class attribute       *)
(* otherwise.  The destination changes between the hooks of the instances. *)
(***************************************************************************)
AdapterInstances == {1, 2}

\* the class and its instances after construction: no instance has an
\* attribute of its own
FreshInstances ==
    [class |-> EmptyDict,
     bound |-> [i \in AdapterInstances |-> FALSE],
     own |-> [i \in AdapterInstances |-> EmptyDict],
     matched |-> [i \in AdapterInstances |-> "none"]]

\* self.<cache> of instance i
CacheAttr(inst, i) == IF inst.bound[i] THEN inst.own[i] ELSE inst.class

\* A faulty hook that assigns the class attribute.
BindCache_OnClass(inst, i, c) == [inst EXCEPT !.class = c]

\* self.<cache> = c in pre_apply_hook of instance i
BindCache(inst, i, c) == [inst EXCEPT !.bound[i] = TRUE, !.own[i] = c]

\* pre_apply_hook of instance i
InstanceHook(i) ==
    /\ \E o \in HookOutcomes(adapter, stateDst, stateSrc, dest) :
          instances' = IF o.listFails THEN instances
                       ELSE BindCache(instances, i,
                                HookCache(adapter, stateDst, stateSrc, dest, o.failing))
    /\ UNCHANGED <<runVars, pager, probe>>

\* create_resource of instance i up to its cache test: whether it takes the
\* update path
InstanceCreate(i) ==
    /\ \E r \in SrcUniverse(adapter) :
          /\ CreateLookupKey(adapter, ImportId(adapter, r), r) # KeyError
          /\ instances' = [instances EXCEPT !.matched[i] =
                IF TakesUpsertPath(adapter, ImportId(adapter, r), r, CacheAttr(instances, i))
                  THEN "update" ELSE "create"]
    /\ UNCHANGED <<runVars, pager, probe>>

\* objects the destination listing may return
MaxListed == 2

\* the objects the destination may come to hold: besides those of
\* DestUniverse, one with the same key and another payload, and for the
\* adapters that provide for it one without a key
ListedUniverse(a) ==
    DestUniverse(a) \cup
    CASE a = "aws" ->
           {[account_id |-> <<"1">>, role_name |-> <<"R">>, host_tags |-> <<"q">>]}
      [] a = "azure" ->
           {[tenant_name |-> <<"T">>, client_id |-> <<"C">>, host_filters |-> <<"q">>]}
      [] a = "fastly" ->
           {[id |-> <<"d2">>, attributes |-> [name |-> <<"n">>, api_key |-> <<"q">>]]}
      [] a = "gcp" ->
           {[id |-> <<"d2">>, attributes |-> [client_email |-> <<"e">>, automute |-> <<"q">>]],
            [id |-> <<"d3">>, attributes |-> [automute |-> <<"q">>]]}
      [] a = "pagerduty" -> {[service_name |-> <<"p">>, service_key |-> <<"q">>]}
      [] a = "service_definition" ->
           {[attributes |-> [schema |-> SchemaOf("dd-service", <<"a">>, <<"q">>)]],
            [attributes |-> [schema |-> [team |-> <<"q">>]]]}
      [] a = "slack" ->
           {[account |-> <<"w">>, channel |-> [channel_name |-> <<"#", "c">>, display |-> <<"q">>]],
            [account |-> <<"v">>, channel |-> [name |-> <<"#", "d">>, display |-> <<"q">>]]}
      [] a = "webhooks" -> {}

\* the destination gains or loses an object by other means
DestChanges ==
    /\ \/ /\ Len(dest) < MaxListed
          /\ \E obj \in ListedUniverse(adapter) : dest' = Append(dest, obj)
       \/ /\ dest # <<>>
          /\ dest' = Tail(dest)
    /\ UNCHANGED <<adapter, items, stateSrc, stateDst, cache, phase, run, calls, reqs,
                   finished, warnings, history, instances, pager, probe>>

InitInstances ==
    /\ adapter \in Adapters
    /\ items = <<>>
    /\ stateSrc \in {SourceState(adapter, <<r>>) : r \in SrcUniverse(adapter)}
    /\ stateDst \in {EmptyDict, StaleState(adapter)}
    /\ dest \in SeqsUpTo(DestUniverse(adapter), MaxDest)
    /\ cache = EmptyDict
    /\ phase = "idle"
    /\ run = 1
    /\ calls = [t \in Tasks |-> IdleFrame]
    /\ reqs = <<>>
    /\ finished = <<>>
    /\ warnings = 0
    /\ history = [prevClean |-> FALSE, hookClean |-> FALSE, hookWarnings |-> 0]
    /\ instances = FreshInstances
    /\ pager = NoPager
    /\ probe = NoProbe

NextInstances ==
    \/ \E i \in AdapterInstances : InstanceHook(i)
    \/ \E i \in AdapterInstances : InstanceCreate(i)
    \/ DestChanges

SpecInstances == InitInstances /\ [][NextInstances]_vars

\* C12: pre_apply_hook of one instance changes neither the cache the other
\* instance's create_resource consults nor the class-level default, which
\* stays {}.
C12_CacheNotShared ==
    [][/\ instances'.class = EmptyDict
       /\ \A i \in AdapterInstances :
             (instances'.own[i] # instances.own[i] \/ instances'.bound[i] # instances.bound[i])
                 => \A j \in AdapterInstances \ {i} :
                        CacheAttr(instances', j) = CacheAttr(instances, j)]_vars

\* one instance has built a cache with an entry; the other, whose hook has
\* not run, reads the empty class default and has decided to create
C12_Witness ==
    \E i, j \in AdapterInstances :
        /\ instances.bound[i]
        /\ instances.own[i] # EmptyDict
        /\ ~instances.bound[j]
        /\ CacheAttr(instances, j) = EmptyDict
        /\ instances.matched[j] = "create"
        /\ instances.matched[i] = "update"

(***************************************************************************)
(* One instance whose pre_apply_hook runs again and again while the        *)
(* destination changes.  probe keeps what the last hook was given: the     *)
(* instances get_resources returned, the fetches that failed, the cache    *)
(* before the hook and the warnings before it.                             *)
(***************************************************************************)
NoListing ==
    [built |-> FALSE, listed |-> <<>>, failing |-> {}, fetched |-> {},
     prev |-> EmptyDict, warned |-> 0,
     polled |-> FALSE, raised |-> FALSE, first |-> EmptyDict, second |-> EmptyDict,
     logged |-> 0]

\* pre_apply_hook; a failing listing request raises out of it
RebuildCache ==
    /\ \E o \in HookOutcomes(adapter, stateDst, stateSrc, dest) :
          IF o.listFails THEN UNCHANGED <<cache, warnings, probe>>
          ELSE /\ cache' = HookCache(adapter, stateDst, stateSrc, dest, o.failing)
               /\ warnings' = (warnings
                                 + HookWarnings(adapter, stateDst, stateSrc, dest, o.failing)) % 2
               /\ probe' = [built |-> TRUE,
                            listed |-> ListOf(adapter, dest, o.failing),
                            failing |-> o.failing,
                            fetched |-> HookFetches(adapter, stateDst, stateSrc, dest),
                            prev |-> cache,
                            warned |-> warnings,
                            polled |-> FALSE, raised |-> FALSE,
                            first |-> EmptyDict, second |-> EmptyDict,
                            logged |-> HookWarnings(adapter, stateDst, stateSrc, dest,
                                                    o.failing)]
    /\ UNCHANGED <<adapter, items, stateSrc, stateDst, dest, phase, run, calls, reqs,
                   finished, history, instances, pager>>

InitListing ==
    /\ adapter \in Adapters
    /\ items = <<>>
    /\ stateSrc \in {SourceState(adapter, <<r>>) : r \in SrcUniverse(adapter)}
    /\ stateDst \in {EmptyDict, StaleState(adapter)}
    /\ dest \in SeqsUpTo(DestUniverse(adapter), MaxDest)
    /\ cache = EmptyDict
    /\ phase = "idle"
    /\ run = 1
    /\ calls = [t \in Tasks |-> IdleFrame]
    /\ reqs = <<>>
    /\ finished = <<>>
    /\ warnings = 0
    /\ history = [prevClean |-> FALSE, hookClean |-> FALSE, hookWarnings |-> 0]
    /\ instances = NoInstances
    /\ pager = NoPager
    /\ probe = NoListing

\* What one destination_client.get of get_destination_webhooks does:
\* "answer" is the reply of the destination (the webhook, or 404 when it has
\* none of that name), "http" a CustomClientHTTPError of another status,
\* "error" any exception that is not a CustomClientHTTPError.
FetchOutcomes == {"answer", "http", "error"}

\* WebhooksIntegration.get_destination_webhooks with the outcome of every
\* fetch given: o1 for the loop over state.destination, o2 for the loop over
\* state.source.  Only CustomClientHTTPError is caught.
Webhooks_build(stD, stS, d, o1, o2) ==
    LET first == StateNames(stD)
        got1 == {n \in first : o1[n] = "answer" /\ NamedAt(d, n) # {}}
        second == StateNames(stS) \ got1
        got2 == {n \in second : o2[n] = "answer" /\ NamedAt(d, n) # {}}
    IN  [raised |-> \/ \E n \in first : o1[n] = "error"
                    \/ \E n \in second : o2[n] = "error",
         cache |-> [n \in got1 \cup got2 |->
                       d[CHOOSE i \in NamedAt(d, n) : \A j \in NamedAt(d, n) : i <= j]],
         warnings |-> Cardinality({n \in first : o1[n] = "http"})
                        + Cardinality({n \in second : o2[n] = "http"}),
         first |-> [n \in first |-> IF o1[n] = "answer" /\ NamedAt(d, n) = {}
                                    THEN "404" ELSE o1[n]],
         second |-> [n \in second |-> IF o2[n] = "answer" /\ NamedAt(d, n) = {}
                                      THEN "404" ELSE o2[n]]]

\* pre_apply_hook of the webhooks adapter, fetch by fetch; an exception
\* leaving get_destination_webhooks leaves the hook before the assignment
WebhooksHook ==
    /\ adapter = "webhooks"
    /\ \E o1 \in [StateNames(stateDst) -> FetchOutcomes],
          o2 \in [StateNames(stateSrc) -> FetchOutcomes] :
          LET b == Webhooks_build(stateDst, stateSrc, dest, o1, o2)
          IN  /\ cache' = IF b.raised THEN cache ELSE b.cache
              /\ warnings' = IF b.raised THEN warnings ELSE (warnings + b.warnings) % 2
              /\ probe' = [NoListing EXCEPT !.polled = TRUE, !.raised = b.raised,
                                            !.first = b.first, !.second = b.second,
                                            !.prev = cache, !.warned = warnings,
                                            !.logged = b.warnings]
    /\ UNCHANGED <<adapter, items, stateSrc, stateDst, dest, phase, run, calls, reqs,
                   finished, history, instances, pager>>

NextListing ==
    \/ RebuildCache
    \/ WebhooksHook
    \/ DestChanges

SpecListing == InitListing /\ [][NextListing]_vars

\* the key under which the cache of the adapter holds a listed instance r:
\* the identity import_resource gives it, except that Fastly files it by
\* attributes.name and GCP by attributes.client_email
CacheKeyOf(r) ==
    CASE adapter = "fastly" -> r["attributes"]["name"]
      [] adapter = "gcp" -> Get(Get(r, "attributes", EmptyDict), "client_email", None)
      [] OTHER -> ImportId(adapter, r)

\* the positions of a listing whose instance is filed: GCP and
\* service_definition leave out an instance with an empty or absent key
Filed(L) ==
    {n \in DOMAIN L :
        adapter \in {"gcp", "service_definition"} => Truthy(CacheKeyOf(L[n]))}

\* C13: as the source has it (the statement with the import identity as key
\* for every adapter is C13_CacheKeyedByImportIdentity): after
\* pre_apply_hook of an adapter with a list operation the cache holds
\* exactly one entry per distinct key among the filed instances of the
\* listing, each key maps to the last listed instance having it, and
\* nothing else is in the cache.
C13_CacheIndexesListing ==
    (probe.built /\ adapter # "webhooks") =>
            LET L == probe.listed
                c == cache
            IN  /\ DOMAIN c = {CacheKeyOf(L[n]) : n \in Filed(L)}
                /\ \A k \in DOMAIN c :
                      \E n \in Filed(L) :
                          /\ CacheKeyOf(L[n]) = k
                          /\ c[k] = L[n]
                          /\ \A m \in Filed(L) : CacheKeyOf(L[m]) = k => m <= n

\* C13 as stated: the keys of the cache are the import identities of the
\* listed instances
C13_CacheKeyedByImportIdentity ==
    (probe.built /\ adapter # "webhooks") =>
        DOMAIN cache = {ImportId(adapter, probe.listed[n]) : n \in DOMAIN probe.listed}

\* a hook has rebuilt a cache that had an entry, from a listing of two
\* instances with one key, and the cache holds the second
C13_Witness ==
    /\ probe.built
    /\ adapter # "webhooks"
    /\ probe.prev # EmptyDict
    /\ Len(probe.listed) = 2
    /\ probe.listed[1] # probe.listed[2]
    /\ CacheKeyOf(probe.listed[1]) = CacheKeyOf(probe.listed[2])
    /\ cache # probe.prev
    /\ cache[CacheKeyOf(probe.listed[2])] = probe.listed[2]

\* the names whose fetch, in the loop given, ended as the outcome given
Ended(loop, outcome) == {n \in DOMAIN loop : loop[n] = outcome}

\* C14: the webhooks cache build never fails the run: whatever the fetches
\* do, get_destination_webhooks returns; a name whose fetch is answered 404
\* or fails otherwise is left out, the latter with a warning, and the cache
\* holds exactly the names whose fetch succeeded.
C14_BuildNeverFails ==
    (adapter = "webhooks" /\ probe.polled) =>
        LET failed == Ended(probe.first, "http") \cup Ended(probe.first, "error")
                        \cup Ended(probe.second, "http") \cup Ended(probe.second, "error")
            gone == Ended(probe.first, "404") \cup Ended(probe.second, "404")
        IN  /\ ~probe.raised
            /\ DOMAIN cache = Ended(probe.first, "answer") \cup Ended(probe.second, "answer")
            /\ DOMAIN cache \cap (failed \cup gone) = {}
            /\ failed # {} => probe.logged > 0
            /\ failed = {} => probe.logged = 0

\* C14, the part that is the run failing: a fetch ending in an exception
\* other than CustomClientHTTPError never leaves the hook
C14_HookNeverRaises == (adapter = "webhooks" /\ probe.polled) => ~probe.raised

\* C14, the part that is the omission: when the hook returns, a name with a
\* fetch that failed is not in the cache
C14_FailedNameOmitted ==
    (adapter = "webhooks" /\ probe.polled /\ ~probe.raised) =>
        DOMAIN cache \cap (Ended(probe.first, "http") \cup Ended(probe.second, "http")) = {}

(***************************************************************************)
(* The functions of the adapters that read a response or an instance and   *)
(* touch nothing else, applied to inputs of every shape; probe keeps the   *)
(* input and what came back.                                               *)
(***************************************************************************)
MaxBody == 1

\* JSON bodies a listing request may be answered with: an object holding
\* the list under the envelope key, an object without that key, an object
\* with null under it, a bare list, or null
ListingBodies(a) ==
    {[type |-> t, key |-> k, items |-> its] :
        t \in {"dict", "list", "null"},
        k \in {"envelope", "missing", "null"},
        its \in SeqsUpTo(DestUniverse(a), MaxBody)}

Returned(v) == [raised |-> "none", isNone |-> FALSE, value |-> v]
ReturnedNone == [raised |-> "none", isNone |-> TRUE, value |-> <<>>]
Raised(e) == [raised |-> e, isNone |-> FALSE, value |-> <<>>]

\* A faulty get_resources that reads the envelope with resp[key].
GetResources_Indexing(a, body, channels) ==
    CASE a \in {"aws", "fastly", "gcp", "pagerduty", "service_definition"} ->
           IF body.type = "dict" /\ body.key = "envelope" THEN Returned(body.items)
           ELSE Raised("KeyError")
      [] a = "azure" -> IF body.type = "list" THEN Returned(body.items) ELSE Returned(<<>>)
      [] a = "slack" ->
           IF body.type = "list" /\ channels.type = "list"
           THEN Returned(Slack_channels_from(1, channels.items, {}))
           ELSE Returned(<<>>)
      [] a = "webhooks" -> Returned(<<>>)

\* get_resources of adapter a when the listing request is answered with
\* body (and, for Slack, each channels request with channels)
GetResources(a, body, channels) ==
    CASE a \in {"aws", "fastly", "gcp", "pagerduty"} ->
           \* resp.get(key, [])
           IF body.type # "dict" THEN Raised("AttributeError")
           ELSE IF body.key = "envelope" THEN Returned(body.items)
           ELSE IF body.key = "null" THEN ReturnedNone
           ELSE Returned(<<>>)
      [] a = "azure" ->
           IF body.type = "list" THEN Returned(body.items) ELSE Returned(<<>>)
      [] a = "slack" ->
           IF body.type = "list" /\ channels.type = "list"
           THEN Returned(Slack_channels_from(1, channels.items, {}))
           ELSE Returned(<<>>)
      [] a = "service_definition" ->
           \* client.paginated_request: a page without the list adds nothing
           IF body.type = "dict" /\ body.key = "envelope" THEN Returned(body.items)
           ELSE Returned(<<>>)
      [] a = "webhooks" -> Returned(<<>>)

Idle == [op |-> "none"]

ProbeFrame == <<adapter, items, stateSrc, stateDst, dest, cache, phase, run, calls, reqs,
                finished, warnings, history, instances, pager>>

ApplyGetResources ==
    /\ \E body \in ListingBodies(adapter) :
          \E channels \in (IF adapter = "slack" THEN ListingBodies(adapter) ELSE {body}) :
              probe' = [op |-> "get_resources", body |-> body, channels |-> channels,
                        out |-> GetResources(adapter, body, channels)]
    /\ UNCHANGED ProbeFrame

InitProbe ==
    /\ adapter \in Adapters
    /\ items = <<>>
    /\ stateSrc = EmptyDict
    /\ stateDst = EmptyDict
    /\ dest = <<>>
    /\ cache = EmptyDict
    /\ phase = "idle"
    /\ run = 1
    /\ calls = [t \in Tasks |-> IdleFrame]
    /\ reqs = <<>>
    /\ finished = <<>>
    /\ warnings = 0
    /\ history = [prevClean |-> FALSE, hookClean |-> FALSE, hookWarnings |-> 0]
    /\ instances = NoInstances
    /\ pager = NoPager
    /\ probe = Idle

MaxFields == 3
MaxIdLen == 4

\* the instances import_resource may be handed: those of the source, and
\* every instance made of some of the adapter's identity fields, each
\* empty or not
IdentityFields(a) ==
    CASE a = "aws" -> {"account_id", "role_name", "access_key_id"}
      [] a = "azure" -> {"tenant_name", "client_id"}
      [] a = "fastly" -> {"id"}
      [] a = "gcp" -> {"id"}
      [] a = "pagerduty" -> {"service_name"}
      [] a = "service_definition" -> {"dd-service", "name", "id"}
      [] a = "slack" -> {"_account_name", "channel_name", "name"}
      [] a = "webhooks" -> {"name"}

InstanceShapes(a) ==
    SrcUniverse(a)
      \cup UNION {[F -> {EmptyStr, <<"a">>, <<"b">>}] :
                     F \in {G \in SUBSET IdentityFields(a) : Cardinality(G) <= MaxFields}}

\* import_resource(resource=r): the identity, or the KeyError of r[field]
ImportResource(a, r) ==
    LET id == ImportId(a, r)
    IN  IF id = KeyError THEN [raised |-> "KeyError", id |-> EmptyStr]
        ELSE [raised |-> "none", id |-> id]

ApplyImportResource ==
    /\ \E r \in InstanceShapes(adapter) :
          probe' = [op |-> "import_resource", resource |-> r,
                    out |-> ImportResource(adapter, r)]
    /\ UNCHANGED ProbeFrame

\* the composite id of test_parse_composite_id_with_colon_in_channel
ColonsExample ==
    <<"w", "o", "r", "k", "s", "p", "a", "c", "e", ":", "#", "c", "h", "a",
      "n", "n", "e", "l", ":", "w", "i", "t", "h", ":", "c", "o", "l", "o",
      "n", "s">>

\* the strings _parse_composite_id is tried on
CompositeIds ==
    {ColonsExample} \cup SeqsUpTo({"w", "#", ":"}, MaxIdLen)

ApplyParseCompositeId ==
    /\ adapter = "slack"
    /\ \E id \in CompositeIds :
          probe' = [op |-> "_parse_composite_id", id |-> id,
                    out |-> Slack_parse_composite_id(id)]
    /\ UNCHANGED ProbeFrame

MaxAccountLen == 2

\* channel instances: the account's name under _account_name, where
\* get_resources puts it, the channel's name under channel_name or name;
\* an instance read from elsewhere may lack either
ChannelInstances ==
    {Put(ch, "_account_name", acc) :
        acc \in SeqsUpTo({"w", ":"}, MaxAccountLen),
        ch \in {Put(EmptyDict, "channel_name", <<"#", "c">>),
                Put(EmptyDict, "name", <<"#", ":", "c">>),
                Put(EmptyDict, "display", <<"q">>)}}
    \cup {EmptyDict, Put(EmptyDict, "channel_name", <<"#", "c">>)}

\* the identity of a channel instance built, then parsed for the path of
\* update_resource and delete_resource
ApplyCompositeRoundTrip ==
    /\ adapter = "slack"
    /\ \E r \in ChannelInstances :
          LET _id == Slack_get_composite_id(r)
          IN  probe' = [op |-> "round_trip", res |-> r, id |-> _id,
                        out |-> Slack_parse_composite_id(_id),
                        path |-> Slack_channel_path(_id)]
    /\ UNCHANGED ProbeFrame

MaxPredicates == 2

\* the instances the filter is tried on: Fastly accounts with a name and a
\* list of services
FilterInstances ==
    {[attributes |-> [name |-> n, services |-> PyList(sv)]] :
        n \in {<<"m", "y">>, <<"o">>},
        sv \in {<<>>, <<<<"s">>>>, <<<<"s">>, <<"t">>>>}}

\* Type=<type>;Name=<dotted path>;Value=<literal>;Operator=<operator>
FilterPredicates ==
    {[type |-> t, name |-> n, value |-> v, operator |-> o] :
        t \in {"fastly_integration", "slack_integration_channels"},
        n \in {"attributes.name", "attributes.services"},
        v \in {<<"m">>, <<"o">>, <<"s">>},
        o \in {"Equals", "SubString", "Not"}}

\* v in s, of Python strings
IsSubString(v, s) ==
    \E i \in 1..(Len(s) - Len(v) + 1) : SubSeq(s, i, i + Len(v) - 1) = v

\* one predicate on one instance: the dotted path is followed, a list at
\* its end is tested element by element, Not inverts the equality test
PredicateHolds(p, r) ==
    LET leaves == IF p.name = "attributes.name" THEN {r.attributes.name}
                  ELSE SeqRange(r.attributes.services.list)
        equal == \E l \in leaves : l = p.value
    IN  CASE p.operator = "Equals" -> equal
          [] p.operator = "SubString" -> \E l \in leaves : IsSubString(p.value, l)
          [] p.operator = "Not" -> ~equal

\* A faulty filter that lets an instance pass when any predicate holds.
Filter_AnyHolds(type, filters, filter_operator, r) ==
    LET mine == {i \in DOMAIN filters : filters[i].type = type}
    IN  mine = {} \/ \E i \in mine : PredicateHolds(filters[i], r)

\* BaseResource.filter: the predicates of the resource type, combined by
\* the mode of the run; no predicate of the type lets every instance pass
Filter(type, filters, filter_operator, r) ==
    LET mine == {i \in DOMAIN filters : filters[i].type = type}
    IN  IF mine = {} THEN TRUE
        ELSE IF filter_operator = "AND"
        THEN \A i \in mine : PredicateHolds(filters[i], r)
        ELSE \E i \in mine : PredicateHolds(filters[i], r)

\* the filter applied once to a freshly listed instance
ApplyFilter ==
    /\ adapter = "fastly"
    /\ probe = Idle
    /\ \E filters \in SeqsUpTo(FilterPredicates, MaxPredicates),
          filter_operator \in {"AND", "OR"},
          r \in FilterInstances :
          probe' = [op |-> "filter", filters |-> filters,
                    filter_operator |-> filter_operator, resource |-> r,
                    out |-> Filter("fastly_integration", filters, filter_operator, r)]
    /\ UNCHANGED ProbeFrame

MaxSourceListing == 2

\* import_resource of the AWS and Azure adapters: with an _id the source
\* is listed and the first instance of that identity taken; with neither a
\* match nor a supplied instance resource stays None, and
\* _get_resource_id(None) raises AttributeError
ImportById(a, _id, given, supplied, listing) ==
    LET hits == {n \in DOMAIN listing : ImportId(a, listing[n]) = _id}
        first == CHOOSE n \in hits : \A m \in hits : n <= m
        fetches == IF Truthy(_id) THEN 1 ELSE 0
    IN  IF Truthy(_id) /\ hits # {}
        THEN [raised |-> "none", id |-> ImportId(a, listing[first]),
              resource |-> listing[first], fetches |-> fetches]
        ELSE IF given
        THEN [raised |-> "none", id |-> ImportId(a, supplied),
              resource |-> supplied, fetches |-> fetches]
        ELSE [raised |-> "AttributeError", id |-> EmptyStr,
              resource |-> EmptyDict, fetches |-> fetches]

\* import_resource called once with an _id, a resource, or both
ApplyImportById ==
    /\ adapter \in {"aws", "azure"}
    /\ probe = Idle
    /\ \E _id \in IdUniverse(adapter) \cup {EmptyStr, <<"9", ":", "Z">>},
          given \in BOOLEAN,
          supplied \in SrcUniverse(adapter),
          listing \in SeqsUpTo(SrcUniverse(adapter), MaxSourceListing) :
          /\ Truthy(_id) \/ given
          /\ probe' = [op |-> "import_by_id", id |-> _id, given |-> given,
                       supplied |-> IF given THEN supplied ELSE EmptyDict,
                       listing |-> listing,
                       out |-> ImportById(adapter, _id, given, supplied, listing)]
    /\ UNCHANGED ProbeFrame

NextProbe ==
    \/ ApplyGetResources
    \/ ApplyImportResource
    \/ ApplyParseCompositeId
    \/ ApplyFilter
    \/ ApplyImportById
    \/ ApplyCompositeRoundTrip

SpecProbe == InitProbe /\ [][NextProbe]_vars

\* the listing response lacks its envelope: the key is missing from the
\* object, or the body is no list where the adapter expects one
LacksEnvelope(a, body, channels) ==
    CASE a \in {"aws", "fastly", "gcp", "pagerduty", "service_definition"} ->
           body.type = "dict" /\ body.key = "missing"
      [] a = "azure" -> body.type # "list"
      [] a = "slack" -> body.type # "list" \/ channels.type # "list"
      [] OTHER -> FALSE

C16_IdentityIsTotal ==
    probe.op = "import_resource" =>
        /\ probe.out.raised = "none"
        /\ (adapter \in {"aws", "azure"} /\ probe.resource = EmptyDict) =>
               probe.out.id = Colon

\* C17: the Identity Key of an AWS instance is account_id:access_key_id
\* whenever access_key_id is not empty, role_name set or not, and
\* account_id:role_name otherwise.
C17_AccessKeyPrecedes ==
    (probe.op = "import_resource" /\ adapter = "aws") =>
        LET r == probe.resource
            Field(f) == IF f \in DOMAIN r THEN r[f] ELSE EmptyStr
        IN  /\ probe.out.raised = "none"
            /\ Field("access_key_id") # EmptyStr =>
                   probe.out.id = Field("account_id") \o <<":">> \o Field("access_key_id")
            /\ Field("access_key_id") = EmptyStr =>
                   probe.out.id = Field("account_id") \o <<":">> \o Field("role_name")

\* an AWS instance with both role_name and access_key_id has been imported
C17_Witness ==
    /\ probe.op = "import_resource"
    /\ adapter = "aws"
    /\ DOMAIN probe.resource = {"account_id", "role_name", "access_key_id"}
    /\ probe.resource["role_name"] = <<"b">>
    /\ probe.resource["access_key_id"] = <<"a">>
    /\ probe.out.id = probe.resource["account_id"] \o <<":", "a">>

\* C18: _parse_composite_id splits on the first colon only: of a string
\* with a colon it returns the text before the first colon and all that
\* follows it, later colons included; "workspace:#channel:with:colons"
\* gives ("workspace", "#channel:with:colons").
C18_SplitsOnFirstColon ==
    (probe.op = "_parse_composite_id" /\ \E i \in DOMAIN probe.id : probe.id[i] = ":") =>
        /\ Len(probe.out) = 2
        /\ \A i \in DOMAIN probe.out[1] : probe.out[1][i] # ":"
        /\ probe.out[1] \o <<":">> \o probe.out[2] = probe.id
        /\ probe.id = ColonsExample =>
               /\ probe.out[1] = SubSeq(ColonsExample, 1, 9)
               /\ probe.out[2] = SubSeq(ColonsExample, 11, 30)

\* the example with three colons has been parsed
C18_Witness ==
    /\ probe.op = "_parse_composite_id"
    /\ probe.id = ColonsExample
    /\ Len(probe.out[1]) = 9
    /\ Cardinality({i \in DOMAIN probe.out[2] : probe.out[2][i] = ":"}) = 2

(***************************************************************************)
(* Pagination of the service definitions: the remaining function of the    *)
(* adapter, and a driver that fetches page 0, 1, 2, ... of one size and    *)
(* stops when the function returns 0.                                      *)
(***************************************************************************)
MaxTotal == 12
MaxPageSize == 4
MaxPageNumber == 3
\* the figures of TestRemainingFunc
TestTotal == 250
TestBoundary == 200
TestPageSize == 100

\* JSON page responses by what they hold of meta.page.total_count: the
\* count; no "meta"; a "meta" without "page"; a "page" without
\* "total_count"; null for "meta"; null for "page"
PageKinds == {"count", "empty", "meta_empty", "page_empty", "meta_null", "page_null"}

PageResponse(kind, total) == [kind |-> kind, total |-> IF kind = "count" THEN total ELSE 0]

Max0(n) == IF n > 0 THEN n ELSE 0

\* A faulty remaining function that counts the pages before the current one.
RemainingFunc_PagesBefore(idx, resp, page_size, page_number) ==
    IF resp.kind \in {"meta_null", "page_null"}
    THEN [raised |-> "AttributeError", value |-> 0]
    ELSE [raised |-> "none", value |-> Max0(resp.total - page_size * page_number)]

\* _remaining_func: resp.get("meta", {}).get("page", {}).get("total_count", 0)
\* falls back to the default only where the key is absent; on a null the
\* next .get raises AttributeError
RemainingFunc(idx, resp, page_size, page_number) ==
    IF resp.kind \in {"meta_null", "page_null"}
    THEN [raised |-> "AttributeError", value |-> 0]
    ELSE LET total_count == resp.total
             fetched == page_size * (page_number + 1)
         IN  [raised |-> "none", value |-> Max0(total_count - fetched)]

\* the driver before its first fetch
NewPager(resp, page_size) ==
    [resp |-> resp, size |-> page_size, page |-> 0, fetches |-> 0, rems |-> <<>>,
     done |-> FALSE, raised |-> FALSE]

\* one page request and the call of the remaining function on its response
FetchPage ==
    /\ ~pager.done
    /\ pager.fetches <= MaxTotal
    /\ LET r == RemainingFunc(pager.page, pager.resp, pager.size, pager.page)
       IN  pager' = [pager EXCEPT !.fetches = @ + 1,
                                  !.page = @ + 1,
                                  !.rems = IF r.raised = "none" THEN Append(@, r.value) ELSE @,
                                  !.raised = r.raised # "none",
                                  !.done = r.raised # "none" \/ r.value = 0]
    /\ UNCHANGED <<adapter, items, stateSrc, stateDst, dest, cache, phase, run, calls, reqs,
                   finished, warnings, history, instances, probe>>

\* the remaining function called on its own
CallRemaining ==
    /\ \E n \in 0..MaxPageNumber :
          probe' = [op |-> "_remaining_func", resp |-> pager.resp, page_size |-> pager.size,
                    page_number |-> n,
                    out |-> RemainingFunc(n, pager.resp, pager.size, n)]
    /\ UNCHANGED ProbeFrame

InitPager ==
    /\ adapter = "service_definition"
    /\ items = <<>>
    /\ stateSrc = EmptyDict
    /\ stateDst = EmptyDict
    /\ dest = <<>>
    /\ cache = EmptyDict
    /\ phase = "idle"
    /\ run = 1
    /\ calls = [t \in Tasks |-> IdleFrame]
    /\ reqs = <<>>
    /\ finished = <<>>
    /\ warnings = 0
    /\ history = [prevClean |-> FALSE, hookClean |-> FALSE, hookWarnings |-> 0]
    /\ instances = NoInstances
    /\ probe = Idle
    /\ \E kind \in PageKinds :
          \E sz \in (1..MaxPageSize) \cup {TestPageSize} :
              \E total \in (IF sz = TestPageSize THEN {TestTotal, TestBoundary}
                            ELSE 0..MaxTotal) :
                  pager = NewPager(PageResponse(kind, total), sz)

NextPager ==
    \/ FetchPage
    \/ CallRemaining

SpecPager == InitPager /\ [][NextPager]_vars

CeilDiv(t, p) == (t + p - 1) \div p

\* C19: pagination terminates: with page size P > 0 and a total count
\* T > 0 the driver makes exactly ceil(T / P) fetches, never more; with
\* T = 250 and P = 100 the function returns 150, 50 and 0 and the driver
\* stops after 3 fetches.
C19_FetchesCeilOfTotal ==
    (pager.resp.kind = "count" /\ pager.resp.total > 0) =>
        /\ pager.fetches <= CeilDiv(pager.resp.total, pager.size)
        /\ pager.done <=> pager.fetches = CeilDiv(pager.resp.total, pager.size)
        /\ ~pager.raised
        /\ (pager.done /\ pager.resp.total = TestTotal /\ pager.size = TestPageSize) =>
               pager.rems = <<150, 50, 0>> /\ pager.fetches = 3

\* the driver has stopped after the third page of 250 items in pages of 100
C19_Witness ==
    /\ pager.done
    /\ pager.resp.kind = "count"
    /\ pager.resp.total = TestTotal
    /\ pager.size = TestPageSize
    /\ pager.fetches = 3
    /\ Len(pager.rems) = 3

\* C20: for a page response without count metadata (no
\* meta.page.total_count) the remaining function returns 0, for every page
\* size and page number, and raises nothing.
C20_NoCountReturnsZero ==
    (probe.op = "_remaining_func" /\ probe.resp.kind # "count") =>
        probe.out.raised = "none" /\ probe.out.value = 0

\* the predicates of a filter list that belong to the Fastly type
OfType(filters) == {i \in DOMAIN filters : filters[i].type = "fastly_integration"}

\* C21: under AND mode an instance passes the filter of its resource type
\* only if every predicate of that type holds; an instance on which one of
\* two AND-combined predicates holds and the other does not is excluded.
C21_AndNeedsEveryPredicate ==
    (probe.op = "filter" /\ probe.filter_operator = "AND") =>
        /\ probe.out =>
               \A i \in OfType(probe.filters) : PredicateHolds(probe.filters[i], probe.resource)
        /\ (\E i, j \in OfType(probe.filters) :
               /\ PredicateHolds(probe.filters[i], probe.resource)
               /\ ~PredicateHolds(probe.filters[j], probe.resource))
            => ~probe.out

\* an account whose name has the substring but whose services lack the
\* value was filtered under AND, as in the second case of the Fastly test
C21_Witness ==
    /\ probe.op = "filter"
    /\ probe.filter_operator = "AND"
    /\ Len(probe.filters) = 2
    /\ OfType(probe.filters) = {1, 2}
    /\ probe.filters[1].operator = "SubString"
    /\ probe.filters[1].name = "attributes.name"
    /\ probe.filters[2].name = "attributes.services"
    /\ PredicateHolds(probe.filters[1], probe.resource)
    /\ ~PredicateHolds(probe.filters[2], probe.resource)
    /\ ~probe.out

\* create_resource of the caller is on the upsert path, its update request
\* awaited
UpsertInFlight == calls[1].op = "create" /\ calls[1].upsert /\ calls[1].pc = "wait"

\* the cached destination instance the upsert path found
CachedFor(f) == cache[CreateLookupKey(adapter, f.id, f.res)]

CreatedAndReturned ==
    calls[1].op = "create" /\ ~calls[1].upsert /\ calls[1].pc = "done"

\* C23: AWS create_resource on the path that does not match issues exactly
\* one POST to the base path with the resource as body and returns the
\* resource with the external_id of the response added when the response
\* has one, the resource as it was otherwise.
C23_AWSCreateMergesExternalId ==
    (adapter = "aws" /\ CreatedAndReturned) =>
        LET f == calls[1]
        IN  /\ Cardinality(ReqsOfCall) = 1
            /\ \A i \in ReqsOfCall :
                  /\ reqs[i].req.method = "POST"
                  /\ reqs[i].req.path = <<>>
                  /\ reqs[i].req.body = f.res
            /\ "external_id" \in DOMAIN probe.resp =>
                  /\ DOMAIN f.ret = DOMAIN f.res \cup {"external_id"}
                  /\ f.ret["external_id"] = probe.resp["external_id"]
                  /\ \A k \in DOMAIN f.res : k # "external_id" => f.ret[k] = f.res[k]
            /\ "external_id" \notin DOMAIN probe.resp => f.ret = f.res

\* an AWS create was answered with an external_id and returned it with the
\* fields of the resource
C23_Witness ==
    /\ adapter = "aws"
    /\ CreatedAndReturned
    /\ "external_id" \in DOMAIN probe.resp
    /\ "external_id" \notin DOMAIN calls[1].res
    /\ calls[1].ret["external_id"] = <<"e">>
    /\ calls[1].ret["account_id"] = calls[1].res["account_id"]

\* the names of the Slack accounts that have one
NamedAccounts ==
    {n \in {Slack_account_name(SlackAccounts[i]) : i \in DOMAIN SlackAccounts} : Truthy(n)}

\* the Slack adapter has listed the destination in this step
SlackListed == adapter = "slack" /\ probe' # probe /\ probe'.built

\* C24: Slack get_resources isolates the failure of one account: it still
\* returns every channel of every other named account, logs a warning and
\* returns; every channel returned carries the _account_name of the
\* account it was listed under, and an account without a name contributes
\* nothing.
C24_SlackIsolatesAccounts ==
    [][SlackListed =>
          LET L == probe'.listed
              F == probe'.failing
              Under(o) == Put(o.channel, "_account_name", o.account)
          IN  /\ \A i \in DOMAIN dest :
                    (dest[i].account \in NamedAccounts \ F) =>
                        \E n \in DOMAIN L : L[n] = Under(dest[i])
              /\ \A n \in DOMAIN L :
                    /\ "_account_name" \in DOMAIN L[n]
                    /\ L[n]["_account_name"] \in NamedAccounts \ F
                    /\ \E i \in DOMAIN dest : L[n] = Under(dest[i])
              /\ F # {} => probe'.logged > 0
              /\ F = {} => probe'.logged = 0
      ]_vars

\* the channels of account w could not be fetched; the listing returned
\* holds the channel of account v, and a warning was logged
C24_Witness ==
    /\ adapter = "slack"
    /\ probe.built
    /\ probe.failing = {<<"w">>}
    /\ \E i \in DOMAIN dest : dest[i].account = <<"w">>
    /\ Len(probe.listed) = 1
    /\ probe.listed[1]["_account_name"] = <<"v">>
    /\ probe.logged = 1

\* C25: for the AWS and Azure adapters import_resource(_id = k) lists the
\* source and returns (k, r) with r the first listed instance whose
\* identity is k; the identity returned is always that of the instance
\* returned; import_resource with an instance supplied and no _id returns
\* that instance without any fetch.
C25_ImportLocatesById ==
    probe.op = "import_by_id" =>
        LET L == probe.listing
            o == probe.out
        IN  /\ o.raised = "none"
            /\ o.id = ImportId(adapter, o.resource)
            /\ (Truthy(probe.id) /\ ~probe.given) =>
                  /\ o.fetches = 1
                  /\ o.id = probe.id
                  /\ \E n \in DOMAIN L :
                        /\ L[n] = o.resource
                        /\ \A m \in 1..(n - 1) : ImportId(adapter, L[m]) # probe.id
            /\ (~Truthy(probe.id) /\ probe.given) =>
                  o.resource = probe.supplied /\ o.fetches = 0

\* C25 where the listing has an instance of the identity asked for, or an
\* instance is supplied
C25_ImportWhenFound ==
    (/\ probe.op = "import_by_id"
     /\ \/ probe.given
        \/ \E n \in DOMAIN probe.listing : ImportId(adapter, probe.listing[n]) = probe.id)
        => probe.out.raised = "none" /\ probe.out.id = ImportId(adapter, probe.out.resource)

\* the State Store entry of the identity the caller's call is about, {}
\* when there is none
EntryOfCall ==
    IF calls[1].id \in DOMAIN stateDst THEN stateDst[calls[1].id] ELSE EmptyDict

\* the discriminator an AWS request carries besides account_id
Discriminators(d) == (DOMAIN d) \cap {"role_name", "access_key_id"}

AWSWriteInFlight ==
    adapter = "aws" /\ calls[1].pc = "wait" /\ calls[1].req.via \in {"update", "delete"}

\* C26: as the source has it (the statement with the discriminator always
\* taken from the State Store entry is C26_DiscriminatorFromEntry): AWS
\* update_resource sends a PUT to the base path with account_id and at most
\* one of role_name, access_key_id as query parameters: role_name when the
\* entry or the payload has one, else access_key_id when either has one,
\* each value the entry's if the entry has the field and the payload's
\* otherwise; delete_resource sends a DELETE to the base path whose body
\* has the entry's account_id and the entry's role_name, else the entry's
\* access_key_id, else nothing more.
C26_AWSTargetAsSent ==
    AWSWriteInFlight =>
        LET f == calls[1]
            e == EntryOfCall
            Has(d, k) == Truthy(Get(d, k, None))
        IN  /\ f.req.path = <<>>
            /\ Cardinality(Discriminators(IF f.req.via = "update" THEN f.req.params
                                           ELSE f.req.body)) <= 1
            /\ f.req.via = "update" =>
                  /\ f.req.method = "PUT"
                  /\ f.req.body = f.res
                  /\ DOMAIN f.req.params =
                        {"account_id"} \cup
                        (IF Has(e, "role_name") \/ Has(f.res, "role_name") THEN {"role_name"}
                         ELSE IF Has(e, "access_key_id") \/ Has(f.res, "access_key_id")
                         THEN {"access_key_id"} ELSE {})
                  /\ \A k \in DOMAIN f.req.params :
                        f.req.params[k] = Get(e, k, Get(f.res, k, None))
            /\ f.req.via = "delete" =>
                  /\ f.req.method = "DELETE"
                  /\ f.req.params = EmptyDict
                  /\ DOMAIN f.req.body =
                        {"account_id"} \cup
                        (IF Has(e, "role_name") THEN {"role_name"}
                         ELSE IF Has(e, "access_key_id") THEN {"access_key_id"} ELSE {})
                  /\ \A k \in DOMAIN f.req.body : f.req.body[k] = Get(e, k, None)

\* C26 as stated: exactly one discriminator, taken from the State Store
\* entry: role_name of a role-based entry, access_key_id of an access-key
\* entry
C26_DiscriminatorFromEntry ==
    AWSWriteInFlight =>
        LET f == calls[1]
            e == EntryOfCall
            sent == IF f.req.via = "update" THEN f.req.params ELSE f.req.body
        IN  /\ Cardinality(Discriminators(sent)) = 1
            /\ \A k \in Discriminators(sent) : k \in DOMAIN e /\ sent[k] = e[k]
            /\ ("access_key_id" \in DOMAIN e /\ "role_name" \notin DOMAIN e) =>
                  Discriminators(sent) = {"access_key_id"}

\* an AWS update without a State Store entry took role_name from the payload
C26_Witness ==
    /\ AWSWriteInFlight
    /\ calls[1].req.via = "update"
    /\ calls[1].id \notin DOMAIN stateDst
    /\ "role_name" \in DOMAIN calls[1].req.params
    /\ calls[1].req.params["role_name"] = calls[1].res["role_name"]

\* C27: no body the Slack adapter's create_resource or update_resource
\* sends has the internal _account_name field; the body is the resource
\* without it, the resource itself as it was; the instance returned for the
\* State Store carries _account_name.
C27_SlackAccountNameStaysInside ==
    adapter = "slack" =>
        /\ \A i \in DOMAIN reqs :
              reqs[i].req.via \in {"create", "update"} =>
                  "_account_name" \notin DOMAIN reqs[i].req.body
        /\ (calls[1].pc = "wait" /\ calls[1].op \in {"create", "update"}) =>
              /\ DOMAIN calls[1].req.body = (DOMAIN calls[1].res) \ {"_account_name"}
              /\ \A k \in DOMAIN calls[1].req.body : calls[1].req.body[k] = calls[1].res[k]
        /\ (calls[1].pc = "done" /\ calls[1].op \in {"create", "update"}) =>
              /\ "_account_name" \in DOMAIN calls[1].ret
              /\ "_account_name" \in DOMAIN stateDst[calls[1].id]

\* a Slack create of a channel with _account_name has sent its body
\* without the field and returned an instance with it
C27_Witness ==
    /\ adapter = "slack"
    /\ calls[1].op = "create"
    /\ ~calls[1].upsert
    /\ calls[1].pc = "done"
    /\ "_account_name" \in DOMAIN calls[1].res
    /\ \E i \in ReqsOfCall : "_account_name" \notin DOMAIN reqs[i].req.body
    /\ calls[1].ret["_account_name"] = calls[1].res["_account_name"]

\* the field _get_resource_id builds the Identity Key of an instance from
AWSIdentityField(r) ==
    IF Truthy(Get(r, "access_key_id", EmptyStr)) THEN "access_key_id" ELSE "role_name"

\* the instance an AWS write is about: the State Store entry of the
\* identity, the payload when there is no entry
AWSWrittenInstance ==
    IF calls[1].id \in DOMAIN stateDst THEN stateDst[calls[1].id] ELSE calls[1].res

\* C28: the discriminator that AWS update_resource and delete_resource
\* send is the field, with the same non-empty value, that _get_resource_id
\* built the instance's Identity Key from.
C28_WriteTargetsIdentityField ==
    AWSWriteInFlight =>
        LET f == calls[1]
            r == AWSWrittenInstance
            k == AWSIdentityField(r)
            sent == IF f.req.via = "update" THEN f.req.params ELSE f.req.body
        IN  (AWS_get_resource_id(r) = f.id /\ Truthy(Get(r, k, EmptyStr))) =>
                /\ Discriminators(sent) = {k}
                /\ sent[k] = r[k]

\* the same when the instance has only one of the two fields
C28_AgreeWithOneField ==
    AWSWriteInFlight =>
        LET f == calls[1]
            r == AWSWrittenInstance
            k == AWSIdentityField(r)
            sent == IF f.req.via = "update" THEN f.req.params ELSE f.req.body
        IN  (/\ AWS_get_resource_id(r) = f.id
             /\ f.id \in DOMAIN stateDst
             /\ Truthy(Get(r, k, EmptyStr))
             /\ ~(Truthy(Get(r, "role_name", EmptyStr)) /\ Truthy(Get(r, "access_key_id", EmptyStr)))
             /\ ~(f.req.via = "update" /\ Truthy(Get(f.res, "role_name", EmptyStr)))) =>
                /\ Discriminators(sent) = {k}
                /\ sent[k] = r[k]

\* the account and channel a channel instance names
SlackNamed(r) ==
    <<Get(r, "_account_name", EmptyStr),
      Get(r, "channel_name", Get(r, "name", EmptyStr))>>

\* C29: _parse_composite_id(_get_composite_id(r)) is (the instance's
\* _account_name, its channel name) for every channel instance, and the
\* path built from the identity addresses that account and channel.
C29_CompositeIdRoundTrips ==
    probe.op = "round_trip" =>
        /\ probe.out = SlackNamed(probe.res)
        /\ probe.path = <<SlackNamed(probe.res)[1], ChannelsSeg, SlackNamed(probe.res)[2]>>

\* the same for the instances whose account name has no colon
C29_RoundTripsWithoutColonInAccount ==
    (/\ probe.op = "round_trip"
     /\ \A i \in DOMAIN SlackNamed(probe.res)[1] : SlackNamed(probe.res)[1][i] # ":") =>
        /\ probe.out = SlackNamed(probe.res)
        /\ probe.path = <<SlackNamed(probe.res)[1], ChannelsSeg, SlackNamed(probe.res)[2]>>

\* C30: when create_resource of the Fastly or GCP adapter takes the upsert
\* path, its one request is a PATCH to the id of the destination object
\* found in the cache, whatever id the payload has and whatever the State
\* Store held for the identity before the call.
C30_UpsertPatchesCachedId ==
    (UpsertInFlight /\ adapter \in {"fastly", "gcp"}) =>
        LET f == calls[1]
            found == CachedFor(f)
        IN  /\ f.req.method = "PATCH"
            /\ f.req.path = <<found["id"]>>
            /\ f.req.body = [data |-> f.res]
            /\ Cardinality(ReqsOfCall) = 1

\* a GCP create on the upsert path, with no State Store entry for the
\* identity before it, addresses the cached account's id, which is not the
\* id of the source account in the payload
C30_Witness ==
    /\ UpsertInFlight
    /\ adapter = "gcp"
    /\ calls[1].pre = Absent
    /\ "id" \in DOMAIN calls[1].res
    /\ calls[1].res["id"] # CachedFor(calls[1])["id"]
    /\ calls[1].req.path = <<CachedFor(calls[1])["id"]>>

=============================================================================
